---------------------------- MODULE Spec2Model ----------------------------
(***************************************************************************)
(* A model of hawk-pack: the HNSW searcher (src/src/hnsw_db.rs), its       *)
(* ordered queues (src/src/hnsw_db/queue.rs), the in-memory graph store    *)
(* (src/src/graph_store/graph_mem.rs) and the lazy in-memory vector store  *)
(* (src/src/examples/lazy_memory_store.rs), driven the way test_hnsw_db    *)
(* drives them.                                                            *)
(*                                                                         *)
(* Conventions.  A Rust Vec is a TLA+ sequence, so the code's index i is   *)
(* the model's index i+1; layer indices lc and the level l keep the code's *)
(* 0-based values and layers[lc] is written g.layers[lc + 1].  A PointId   *)
(* is the 1-based position of the point in `points`.  Option<T> is a       *)
(* sequence of length 0 (None) or 1 (Some).  A HashMap is a function whose *)
(* domain is the set of keys present.                                      *)
(***************************************************************************)
EXTENDS Integers, Sequences, FiniteSets, TLC

(***************************************************************************)
(* Bounds and input sets.                                                  *)
(***************************************************************************)

\* The number of points the vector store may hold (prepared queries).
MaxVectors == 3

\* The raw u64 values the caller prepares queries from.  Hamming distances:
\* 0-1: 1, 0-6: 2, 1-6: 3; preparing a value twice gives distance 0 and ties.
RawQueries == {0, 1, 6}

\* The values select_layer may return (floor(-ln(r) * m_L) is any natural).
LevelChoices == {0, 1}

Param(ef, M, Mmax, Mmax0) == [ef |-> ef, M |-> M, Mmax |-> Mmax, Mmax0 |-> Mmax0]

\* HawkSearcher::new fixes ef = M = Mmax = Mmax0 = 32, far above any number
\* of vectors a model can enumerate.  The model runs the same code under
\* scaled-down parameters that keep the code's relation M <= Mmax, M <= Mmax0,
\* and under parameters that, like 32 here, no reachable queue can fill.
ParamChoices ==
    { Param(1, 1, 1, 1), Param(2, 1, 1, 2), Param(2, 1, 2, 1),
      Param(1, 2, 2, 2), Param(2, 2, 2, 2),
      Param(MaxVectors, MaxVectors, MaxVectors, MaxVectors) }

VARIABLES
    params,      \* HawkSearcher.params
    rng,         \* HawkSearcher.rng: the number of values drawn so far
    points,      \* LazyMemoryStore.points
    graph,       \* GraphMem: [entry_point, layers]
    pc,          \* where the caller is: idle, prepared, searched, checked, stored,
                 \* inserted, panicked
    query,       \* the caller's current QueryRef (0: none)
    neighbors,   \* the caller's current search result, index 1 = bottom layer
    matched,     \* the result of the last is_match call, in a sequence
    inserted,    \* the VectorRef returned by the last vector_store.insert (0: none)
    level,       \* the value select_layer returned in the last insert, in a sequence
    reads,       \* the backend reads of the last search_to_insert, per step
    writes,      \* the graph writes of the last insert_from_search_results
    chosen,      \* history: the level select_layer chose for each inserted vector
    pg,          \* GraphPg: the tables hawk_graph_entry and hawk_graph_links
    calls,       \* history: the calls made on a graph store directly, with replies
    eager,       \* a second searcher over an EagerMemoryStore and its caller
    co,          \* the coroutine of search_to_insert_stream and its channel
    second,      \* a second HawkSearcher with its GraphMem, and the seeds of both
    linear,      \* LinearDb.vectors, and the result of its last insert
    held         \* a search result the caller has put aside, in a sequence

vars == <<params, rng, points, graph, pc, query, neighbors, matched,
          inserted, level, reads, writes, chosen, pg, calls, eager, co,
          second, linear, held>>

\* What the caller of test_hnsw_db never touches: the persisted graph store,
\* the second searcher and the coroutine.
other_hosts == <<pg, calls, eager, co, second, linear, held>>

Min(a, b) == IF a < b THEN a ELSE b

Reverse(s) == [i \in 1..Len(s) |-> s[Len(s) + 1 - i]]

\* Vec::insert(index, element) with the code's 0-based index.
VecInsert(s, index, e) ==
    SubSeq(s, 1, index) \o <<e>> \o SubSeq(s, index + 1, Len(s))

(***************************************************************************)
(* LazyMemoryStore                                                         *)
(***************************************************************************)

RECURSIVE count_ones_xor(_, _)
\* (vector_0 ^ vector_1).count_ones()
count_ones_xor(x, y) ==
    IF x = 0 /\ y = 0 THEN 0
    ELSE (IF (x % 2) = (y % 2) THEN 0 ELSE 1) + count_ones_xor(x \div 2, y \div 2)

actually_evaluate_distance(pair) ==
    count_ones_xor(points[pair[1]].data, points[pair[2]].data)

\* A DistanceRef is the pair of ids; nothing is computed yet.
LazyMemoryStore_eval_distance(q, vector) == <<q, vector>>

LazyMemoryStore_is_match(distance) == actually_evaluate_distance(distance) = 0

LazyMemoryStore_less_than(distance1, distance2) ==
    actually_evaluate_distance(distance1) < actually_evaluate_distance(distance2)

(***************************************************************************)
(* EagerMemoryStore.  Its QueryRef, VectorRef and DistanceRef are types of *)
(* their own: the model writes QueryRef(i) and VectorRef(i) as -(i + 1),   *)
(* the negative of the 1-based position in pending_queries and in vectors, *)
(* so that a handle tells its store as its type does in the code.          *)
(* DistanceRef(i) is the index of a value pushed to distances, which only  *)
(* grows: the model writes the handle as the one-field tuple of the value  *)
(* it points to, and the caller's step pushes the values to distances.     *)
(***************************************************************************)

\* The distance is computed now.
EagerMemoryStore_eval_distance(query_ref, vector_ref) ==
    <<count_ones_xor(eager.pending_queries[-query_ref], eager.vectors[-vector_ref])>>

EagerMemoryStore_is_match(distance) == distance[1] = 0

\* Mutation of EagerMemoryStore_less_than: <= for <.
EagerMemoryStore_less_than_or_equal(distance1, distance2) ==
    distance1[1] <= distance2[1]

EagerMemoryStore_less_than(distance1, distance2) == distance1[1] < distance2[1]

(***************************************************************************)
(* VectorStore: the searcher is generic over the store, and a call goes to *)
(* the store of the handle's type.                                         *)
(***************************************************************************)

eval_distance(q, vector) ==
    IF q < 0 THEN EagerMemoryStore_eval_distance(q, vector)
    ELSE LazyMemoryStore_eval_distance(q, vector)

eval_distance_batch(q, vectors) ==
    [i \in 1..Len(vectors) |-> eval_distance(q, vectors[i])]

store_is_match(distance) ==
    IF Len(distance) = 1 THEN EagerMemoryStore_is_match(distance)
    ELSE LazyMemoryStore_is_match(distance)

less_than(distance1, distance2) ==
    IF Len(distance1) = 1 THEN EagerMemoryStore_less_than(distance1, distance2)
    ELSE LazyMemoryStore_less_than(distance1, distance2)

RECURSIVE search_sorted_loop_upper(_, _, _, _)
\* Mutation of search_sorted_loop: the comparison is "target is not
\* less_than distances[mid]", which gives the index after the equal ones.
search_sorted_loop_upper(distances, target, left, right) ==
    IF left < right
    THEN LET mid == left + (right - left) \div 2
         IN  IF ~less_than(target, distances[mid + 1])
             THEN search_sorted_loop_upper(distances, target, mid + 1, right)
             ELSE search_sorted_loop_upper(distances, target, left, mid)
    ELSE left

RECURSIVE search_sorted_loop(_, _, _, _)
search_sorted_loop(distances, target, left, right) ==
    IF left < right
    THEN LET mid == left + (right - left) \div 2
         IN  IF less_than(distances[mid + 1], target)
             THEN search_sorted_loop(distances, target, mid + 1, right)
             ELSE search_sorted_loop(distances, target, left, mid)
    ELSE left

\* The insertion index (0-based) of target in a list of ascending distances.
search_sorted(distances, target) ==
    search_sorted_loop(distances, target, 0, Len(distances))

(***************************************************************************)
(* FurthestQueue and NearestQueue: sequences of <<vector, distance>>.      *)
(***************************************************************************)

Distances(queue) == [i \in 1..Len(queue) |-> queue[i][2]]

Vectors(queue) == [i \in 1..Len(queue) |-> queue[i][1]]

\* Mutation of FurthestQueue_insert: the pair is pushed at the end, whatever
\* its distance.
FurthestQueue_push(queue, to, dist) == Append(queue, <<to, dist>>)

FurthestQueue_insert(queue, to, dist) ==
    LET index_asc == search_sorted(Distances(queue), dist)
    IN  VecInsert(queue, index_asc, <<to, dist>>)

get_nearest(queue) == IF Len(queue) = 0 THEN <<>> ELSE <<queue[1]>>

get_furthest(queue) == IF Len(queue) = 0 THEN <<>> ELSE <<queue[Len(queue)]>>

pop_furthest(queue) == SubSeq(queue, 1, Len(queue) - 1)

trim_to_k_nearest(queue, k) == SubSeq(queue, 1, Min(k, Len(queue)))

from_furthest_queue(furthest_queue) == Reverse(furthest_queue)

\* Mutation of NearestQueue_insert: the ascending index is used as it is on
\* the descending list.
NearestQueue_insert_at_asc(queue, to, dist) ==
    LET index_asc == search_sorted(Reverse(Distances(queue)), dist)
    IN  VecInsert(queue, index_asc, <<to, dist>>)

NearestQueue_insert(queue, to, dist) ==
    LET index_asc == search_sorted(Reverse(Distances(queue)), dist)
        index_des == Len(queue) - index_asc
    IN  VecInsert(queue, index_des, <<to, dist>>)

pop_nearest(queue) == SubSeq(queue, 1, Len(queue) - 1)

(***************************************************************************)
(* GraphMem                                                                *)
(***************************************************************************)

EntryPoint(vector_ref, layer_count) ==
    [vector_ref |-> vector_ref, layer_count |-> layer_count]

\* Layer::new(): an empty HashMap.
Layer_new == [base \in {} |-> <<>>]

GraphMem_new == [entry_point |-> <<>>, layers |-> <<>>]

get_entry_point(g) == g.entry_point

\* Mutation of set_entry_point_aborts: the assertion is previous.layer_count
\* <= entry_point.layer_count, so the same layer_count is accepted again.
set_entry_point_aborts_when_lower(g, entry_point) ==
    /\ Len(g.entry_point) = 1
    /\ ~(g.entry_point[1].layer_count <= entry_point.layer_count)

\* The assertion of set_entry_point fails.
set_entry_point_aborts(g, entry_point) ==
    /\ Len(g.entry_point) = 1
    /\ ~(g.entry_point[1].layer_count < entry_point.layer_count)

\* Mutation of push_layers: no layer is created.
push_layers_none(layers, layer_count) == layers

RECURSIVE push_layers(_, _)
push_layers(layers, layer_count) ==
    IF layer_count > Len(layers)
    THEN push_layers(Append(layers, Layer_new), layer_count)
    ELSE layers

\* Mutation of set_entry_point: a graph that has an entry point keeps its
\* vector and takes only the layer_count.
set_entry_point_keeping_vector(g, entry_point) ==
    [entry_point |->
         IF Len(g.entry_point) = 0 THEN <<entry_point>>
         ELSE <<EntryPoint(g.entry_point[1].vector_ref, entry_point.layer_count)>>,
     layers |-> push_layers(g.layers, entry_point.layer_count)]

\* set_entry_point when its assertion holds.
set_entry_point(g, entry_point) ==
    [entry_point |-> <<entry_point>>,
     layers |-> push_layers(g.layers, entry_point.layer_count)]

\* self.layers[lc] in get_links is out of bounds and panics.
get_links_panics(g, lc) == lc >= Len(g.layers)

\* get_links when layer lc exists.
get_links(g, base, lc) ==
    LET layer == g.layers[lc + 1]
    IN  IF base \in DOMAIN layer THEN layer[base] ELSE <<>>

\* self.layers[lc] in set_links is out of bounds and panics.
set_links_panics(g, lc) == lc >= Len(g.layers)

\* Mutation of set_links: a queue already stored for base is kept
\* (entry().or_insert instead of insert).
set_links_or_insert(g, base, links, lc) ==
    [g EXCEPT !.layers[lc + 1] = @ @@ (base :> links)]

\* set_links when layer lc exists.
set_links(g, base, links, lc) ==
    [g EXCEPT !.layers[lc + 1] = (base :> links) @@ @]

(***************************************************************************)
(* GraphPg: the two tables as functions from their key (the columns of     *)
(* ON CONFLICT) to the row's value.  A text or jsonb column holds the      *)
(* serde_json encoding: a number is the sequence of its decimal digits, a  *)
(* tuple or Vec the sequence of its elements' encodings, a struct the      *)
(* record of its fields' encodings.                                        *)
(***************************************************************************)

RECURSIVE to_json_usize(_)
\* serde_json of a usize, and of a newtype struct over it such as PointId.
to_json_usize(n) ==
    IF n < 10 THEN <<n>> ELSE Append(to_json_usize(n \div 10), n % 10)

RECURSIVE from_json_usize(_)
from_json_usize(digits) ==
    IF Len(digits) = 1 THEN digits[1]
    ELSE from_json_usize(SubSeq(digits, 1, Len(digits) - 1)) * 10 + digits[Len(digits)]

\* serde_json of a DistanceRef of the LazyMemoryStore, a pair of PointIds.
to_json_distance(distance) ==
    <<to_json_usize(distance[1]), to_json_usize(distance[2])>>

from_json_distance(json) ==
    <<from_json_usize(json[1]), from_json_usize(json[2])>>

\* sqlx::types::Json of a FurthestQueue: its Vec of (vector, distance).
to_json_links(links) ==
    [i \in 1..Len(links) |->
        <<to_json_usize(links[i][1]), to_json_distance(links[i][2])>>]

from_json_links(json) ==
    [i \in 1..Len(json) |->
        <<from_json_usize(json[i][1]), from_json_distance(json[i][2])>>]

\* sqlx::types::Json of an EntryPoint.
to_json_entry_point(entry_point) ==
    [vector_ref |-> to_json_usize(entry_point.vector_ref),
     layer_count |-> to_json_usize(entry_point.layer_count)]

from_json_entry_point(json) ==
    EntryPoint(from_json_usize(json.vector_ref), from_json_usize(json.layer_count))

\* The tables after the migration: no rows.
GraphPg_new ==
    [hawk_graph_entry |-> [id \in {} |-> <<>>],
     hawk_graph_links |-> [key \in {} |-> <<>>]]

\* SELECT entry_point FROM hawk_graph_entry WHERE id = 0
GraphPg_get_entry_point(db) ==
    IF 0 \in DOMAIN db.hawk_graph_entry
    THEN <<from_json_entry_point(db.hawk_graph_entry[0])>>
    ELSE <<>>

\* INSERT ... VALUES ($1, 0) ON CONFLICT (id) DO UPDATE SET entry_point = ...
\* There is no condition on the row already stored.
GraphPg_set_entry_point(db, entry_point) ==
    [db EXCEPT !.hawk_graph_entry = (0 :> to_json_entry_point(entry_point)) @@ @]

\* The key of a row of hawk_graph_links: source_ref is the serde_json string
\* of base, layer is lc as i32 (lc itself below 2^31).
links_key(base, lc) == <<to_json_usize(base), lc>>

\* SELECT links FROM hawk_graph_links WHERE source_ref = $1 AND layer = $2
GraphPg_get_links(db, base, lc) ==
    IF links_key(base, lc) \in DOMAIN db.hawk_graph_links
    THEN from_json_links(db.hawk_graph_links[links_key(base, lc)])
    ELSE <<>>

\* INSERT ... ON CONFLICT (source_ref, layer) DO UPDATE SET links = ...
GraphPg_set_links(db, base, links, lc) ==
    [db EXCEPT !.hawk_graph_links = (links_key(base, lc) :> to_json_links(links)) @@ @]

(***************************************************************************)
(* HawkSearcher                                                            *)
(***************************************************************************)

\* One backend read of a search, as the searcher issues it.  lc is the layer
\* being traversed (-1 in search_init), base the vector whose links are read
\* (0 when none), vectors the vectors whose distance to the query is asked.
\* The less_than calls are not logged.
Read(op, lc, base, vectors) ==
    [op |-> op, lc |-> lc, base |-> base, vectors |-> vectors]

\* One graph write of an insert.
Write(op, lc, base, links) ==
    [op |-> op, lc |-> lc, base |-> base, links |-> links]

\* Mutation of max_links_for: the cap of layer 0 on every layer.
max_links_any_layer(lc) == params.Mmax0

max_links_for(lc) == IF lc = 0 THEN params.Mmax0 ELSE params.Mmax

\* Mutation of connect_one: q is pushed at the end of the links of n instead
\* of at its place in the order.
connect_one_push(g, q, n, nq, lc) ==
    LET links   == get_links(g, n, lc)
        linked  == Append(links, <<q, nq>>)
        trimmed == trim_to_k_nearest(linked, max_links_for(lc))
    IN  [g |-> set_links(g, n, trimmed, lc),
         log |-> <<Write("set_links", lc, n, trimmed)>>]

\* What connect_bidir does with one neighbor n: read its links, insert q,
\* trim, write back.
connect_one(g, q, n, nq, lc) ==
    LET links   == get_links(g, n, lc)
        linked  == FurthestQueue_insert(links, q, nq)
        trimmed == trim_to_k_nearest(linked, max_links_for(lc))
    IN  [g |-> set_links(g, n, trimmed, lc),
         log |-> <<Write("set_links", lc, n, trimmed)>>]

RECURSIVE connect_all(_, _, _, _, _, _)
\* The loop "Connect all n -> q" over neighbors[i..].
connect_all(g, q, nbrs, i, lc, log) ==
    IF i > Len(nbrs) THEN [g |-> g, log |-> log]
    ELSE LET one == connect_one(g, q, nbrs[i][1], nbrs[i][2], lc)
         IN  connect_all(one.g, q, nbrs, i + 1, lc, log \o one.log)

\* Mutation of connect_bidir: only q -> n is written, never n -> q.
connect_bidir_forward_only(g, q, neighbors_in, lc) ==
    LET nbrs == trim_to_k_nearest(neighbors_in, params.M)
    IN  [g |-> set_links(g, q, nbrs, lc),
         log |-> <<Write("set_links", lc, q, nbrs)>>]

\* Mutation of connect_bidir: the links of q are stored as they came, not
\* trimmed to M.
connect_bidir_untrimmed(g, q, neighbors_in, lc) ==
    LET nbrs == trim_to_k_nearest(neighbors_in, params.M)
        back == connect_all(g, q, nbrs, 1, lc, <<>>)
    IN  [g |-> set_links(back.g, q, neighbors_in, lc),
         log |-> Append(back.log, Write("set_links", lc, q, neighbors_in))]

\* Mutation of connect_bidir: q is linked into the list of every neighbor
\* given, not only of the M nearest.
connect_bidir_every_neighbor(g, q, neighbors_in, lc) ==
    LET nbrs == trim_to_k_nearest(neighbors_in, params.M)
        back == connect_all(g, q, neighbors_in, 1, lc, <<>>)
    IN  [g |-> set_links(back.g, q, nbrs, lc),
         log |-> Append(back.log, Write("set_links", lc, q, nbrs))]

connect_bidir(g, q, neighbors_in, lc) ==
    LET nbrs == trim_to_k_nearest(neighbors_in, params.M)
        back == connect_all(g, q, nbrs, 1, lc, <<>>)
    IN  [g |-> set_links(back.g, q, nbrs, lc),
         log |-> Append(back.log, Write("set_links", lc, q, nbrs))]

ef_for_layer(lc) == params.ef

search_init(g, q) ==
    IF Len(get_entry_point(g)) = 1
    THEN LET entry_point  == get_entry_point(g)[1]
             entry_vector == entry_point.vector_ref
             distance     == eval_distance(q, entry_vector)
         IN  [W |-> FurthestQueue_insert(<<>>, entry_vector, distance),
              layer_count |-> entry_point.layer_count,
              log |-> <<Read("get_entry_point", -1, 0, <<>>),
                        Read("eval_distance", -1, 0, <<entry_vector>>)>>]
    ELSE [W |-> <<>>, layer_count |-> 0,
          log |-> <<Read("get_entry_point", -1, 0, <<>>)>>]

RECURSIVE filter_unvisited_unmarked(_, _, _, _)
\* Mutation of filter_unvisited: a vector taken is not marked visited.
filter_unvisited_unmarked(c_links, i, v, e_batch) ==
    IF i > Len(c_links) THEN [v |-> v, e_batch |-> e_batch]
    ELSE LET e == c_links[i][1]
         IN  IF e \in v
             THEN filter_unvisited_unmarked(c_links, i + 1, v, e_batch)
             ELSE filter_unvisited_unmarked(c_links, i + 1, v, Append(e_batch, e))

RECURSIVE filter_unvisited(_, _, _, _)
\* c_links.iter().map(..).filter(|e| v.insert(e)): the vectors of c_links not
\* visited yet, in link order, each marked visited as it is taken.
filter_unvisited(c_links, i, v, e_batch) ==
    IF i > Len(c_links) THEN [v |-> v, e_batch |-> e_batch]
    ELSE LET e == c_links[i][1]
         IN  IF e \in v
             THEN filter_unvisited(c_links, i + 1, v, e_batch)
             ELSE filter_unvisited(c_links, i + 1, v \cup {e}, Append(e_batch, e))

\* Mutation of visit_candidate: the furthest of a full W is not popped
\* before a nearer e is inserted.
visit_candidate_no_pop(W, C, fq, e, eq, ef) ==
    IF Len(W) = ef /\ ~less_than(eq, fq)
    THEN [W |-> W, C |-> C, fq |-> fq]
    ELSE LET C2 == NearestQueue_insert(C, e, eq)
             W2 == FurthestQueue_insert(W, e, eq)
         IN  [W |-> W2, C |-> C2, fq |-> get_furthest(W2)[1][2]]

\* The body of "for (e, eq) in c_links" for one pair.
visit_candidate(W, C, fq, e, eq, ef) ==
    IF Len(W) = ef /\ ~less_than(eq, fq)
    THEN [W |-> W, C |-> C, fq |-> fq]
    ELSE LET W1 == IF Len(W) = ef THEN pop_furthest(W) ELSE W
             C2 == NearestQueue_insert(C, e, eq)
             W2 == FurthestQueue_insert(W1, e, eq)
         IN  [W |-> W2, C |-> C2, fq |-> get_furthest(W2)[1][2]]

RECURSIVE visit_candidates(_, _, _, _, _, _, _)
visit_candidates(W, C, fq, e_batch, distances, i, ef) ==
    IF i > Len(e_batch) THEN [W |-> W, C |-> C, fq |-> fq]
    ELSE LET s == visit_candidate(W, C, fq, e_batch[i], distances[i], ef)
         IN  visit_candidates(s.W, s.C, s.fq, e_batch, distances, i + 1, ef)

RECURSIVE search_layer_loop_skipping_empty(_, _, _, _, _, _, _, _, _)
\* Mutation of search_layer_loop: eval_distance_batch is not called when no
\* neighbor of the candidate is new.
search_layer_loop_skipping_empty(g, q, ef, lc, W, C, v, fq, log) ==
    IF Len(C) = 0 THEN [W |-> W, log |-> log, panicked |-> FALSE]
    ELSE LET c   == C[Len(C)][1]
             cq  == C[Len(C)][2]
             C1  == pop_nearest(C)
         IN  IF less_than(fq, cq)
             THEN [W |-> W, log |-> log, panicked |-> FALSE]
             ELSE LET c_links   == get_links(g, c, lc)
                      f         == filter_unvisited(c_links, 1, v, <<>>)
                      distances == eval_distance_batch(q, f.e_batch)
                      s == visit_candidates(W, C1, fq, f.e_batch, distances, 1, ef)
                  IN  search_layer_loop_skipping_empty(g, q, ef, lc, s.W, s.C, f.v, s.fq,
                          log \o <<Read("get_links", lc, c, <<>>)>>
                              \o IF Len(f.e_batch) = 0 THEN <<>>
                                 ELSE <<Read("eval_distance_batch", lc, c, f.e_batch)>>)

RECURSIVE search_layer_loop(_, _, _, _, _, _, _, _, _)
\* The loop "while C.len() > 0".
search_layer_loop(g, q, ef, lc, W, C, v, fq, log) ==
    IF Len(C) = 0 THEN [W |-> W, log |-> log, panicked |-> FALSE]
    ELSE LET c   == C[Len(C)][1]
             cq  == C[Len(C)][2]
             C1  == pop_nearest(C)
         IN  IF less_than(fq, cq)
             THEN [W |-> W, log |-> log, panicked |-> FALSE]
             ELSE LET c_links   == get_links(g, c, lc)
                      f         == filter_unvisited(c_links, 1, v, <<>>)
                      distances == eval_distance_batch(q, f.e_batch)
                      s == visit_candidates(W, C1, fq, f.e_batch, distances, 1, ef)
                  IN  search_layer_loop(g, q, ef, lc, s.W, s.C, f.v, s.fq,
                          log \o <<Read("get_links", lc, c, <<>>),
                                   Read("eval_distance_batch", lc, c, f.e_batch)>>)

\* Mutate W into the ef nearest neighbors of q in layer lc.  An empty W makes
\* the expect() on get_furthest panic.
search_layer(g, q, W, ef, lc) ==
    IF Len(W) = 0 THEN [W |-> W, log |-> <<>>, panicked |-> TRUE]
    ELSE LET v  == {W[i][1] : i \in 1..Len(W)}
             C  == from_furthest_queue(W)
             fq == get_furthest(W)[1][2]
         IN  search_layer_loop(g, q, ef, lc, W, C, v, fq, <<>>)

RECURSIVE search_layers(_, _, _, _, _, _)
\* The loop "for lc in (0..layer_count).rev()", from layer lc + 1 = n down:
\* links gets each layer's W pushed, top layer first.
search_layers(g, q, W, n, links, log) ==
    IF n = 0 THEN [links |-> links, log |-> log, panicked |-> FALSE]
    ELSE LET lc == n - 1
             r  == search_layer(g, q, W, ef_for_layer(lc), lc)
         IN  IF r.panicked
             THEN [links |-> links, log |-> log \o r.log, panicked |-> TRUE]
             ELSE search_layers(g, q, r.W, n - 1, Append(links, r.W), log \o r.log)

\* Mutation of search_to_insert: the list is returned top layer first.
search_to_insert_unreversed(g, q) ==
    LET init == search_init(g, q)
        down == search_layers(g, q, init.W, init.layer_count, <<>>, init.log)
    IN  [links |-> down.links, log |-> down.log, panicked |-> down.panicked]

search_to_insert(g, q) ==
    LET init == search_init(g, q)
        down == search_layers(g, q, init.W, init.layer_count, <<>>, init.log)
    IN  [links |-> Reverse(down.links), log |-> down.log, panicked |-> down.panicked]

\* Mutation of is_match: an empty result counts as a match.
is_match_when_empty(nbrs) ==
    IF Len(nbrs) = 0 THEN TRUE
    ELSE IF Len(get_nearest(nbrs[1])) = 0 THEN TRUE
    ELSE store_is_match(get_nearest(nbrs[1])[1][2])

\* Mutation of is_match: the top layer's queue is read, not the bottom's.
is_match_top_layer(nbrs) ==
    IF Len(nbrs) = 0 THEN FALSE
    ELSE IF Len(get_nearest(nbrs[Len(nbrs)])) = 0 THEN FALSE
    ELSE store_is_match(get_nearest(nbrs[Len(nbrs)])[1][2])

is_match(nbrs) ==
    IF Len(nbrs) = 0 THEN FALSE
    ELSE IF Len(get_nearest(nbrs[1])) = 0 THEN FALSE
    ELSE store_is_match(get_nearest(nbrs[1])[1][2])

RECURSIVE connect_layers_take_l(_, _, _, _, _, _)
\* Mutation of connect_layers: take(l) instead of take(l + 1).
connect_layers_take_l(g, inserted_vector, links, lc, l, log) ==
    IF lc >= Len(links) \/ lc >= l THEN [g |-> g, log |-> log]
    ELSE LET r == connect_bidir(g, inserted_vector, links[lc + 1], lc)
         IN  connect_layers_take_l(r.g, inserted_vector, links, lc + 1, l, log \o r.log)

RECURSIVE connect_layers(_, _, _, _, _, _)
\* The loop over links.into_iter().enumerate().take(l + 1), from index lc on.
connect_layers(g, inserted_vector, links, lc, l, log) ==
    IF lc >= Len(links) \/ lc >= l + 1 THEN [g |-> g, log |-> log]
    ELSE LET r == connect_bidir(g, inserted_vector, links[lc + 1], lc)
         IN  connect_layers(r.g, inserted_vector, links, lc + 1, l, log \o r.log)

\* Mutation of new_entry_point: the level is taken for the layer count.
new_entry_point_level(inserted_vector, l) == EntryPoint(inserted_vector, l)

\* The entry point a promoted vector becomes.
new_entry_point(inserted_vector, l) == EntryPoint(inserted_vector, l + 1)

\* Mutation of insert_from_search_results: the vector is promoted already
\* when l is the top layer index (l + 1 >= layer_count).
insert_from_search_results_promoting_top(g, inserted_vector, links, l) ==
    LET layer_count == Len(links)
        r  == connect_layers(g, inserted_vector, links, 0, l, <<>>)
        ep == new_entry_point(inserted_vector, l)
    IN  IF l + 1 >= layer_count
        THEN IF set_entry_point_aborts(r.g, ep)
             THEN [g |-> r.g, log |-> r.log, panicked |-> TRUE]
             ELSE [g |-> set_entry_point(r.g, ep),
                   log |-> Append(r.log, Write("set_entry_point", l + 1, inserted_vector, <<>>)),
                   panicked |-> FALSE]
        ELSE [g |-> r.g, log |-> r.log, panicked |-> FALSE]

\* Mutation of insert_from_search_results: the vector is promoted before it
\* is connected.
insert_from_search_results_promoting_first(g, inserted_vector, links, l) ==
    LET layer_count == Len(links)
        r  == connect_layers(g, inserted_vector, links, 0, l, <<>>)
        ep == new_entry_point(inserted_vector, l)
    IN  IF l >= layer_count
        THEN IF set_entry_point_aborts(g, ep)
             THEN [g |-> g, log |-> <<>>, panicked |-> TRUE]
             ELSE [g |-> set_entry_point(r.g, ep),
                   log |-> <<Write("set_entry_point", l + 1, inserted_vector, <<>>)>> \o r.log,
                   panicked |-> FALSE]
        ELSE [g |-> r.g, log |-> r.log, panicked |-> FALSE]

\* insert_from_search_results with l the value select_layer returned.
insert_from_search_results(g, inserted_vector, links, l) ==
    LET layer_count == Len(links)
        r  == connect_layers(g, inserted_vector, links, 0, l, <<>>)
        ep == new_entry_point(inserted_vector, l)
    IN  IF l >= layer_count
        THEN IF set_entry_point_aborts(r.g, ep)
             THEN [g |-> r.g, log |-> r.log, panicked |-> TRUE]
             ELSE [g |-> set_entry_point(r.g, ep),
                   log |-> Append(r.log, Write("set_entry_point", l + 1, inserted_vector, <<>>)),
                   panicked |-> FALSE]
        ELSE [g |-> r.g, log |-> r.log, panicked |-> FALSE]

(***************************************************************************)
(* The caller of test_hnsw_db: prepare a query, search it, test the match, *)
(* insert it into the vector store, then into the graph (its first loop);  *)
(* or search an inserted query again, test the match and drop the result   *)
(* (its second loop).                                                      *)
(***************************************************************************)

\* EagerMemoryStore::new, a GraphMem for it, and a caller holding nothing.
EagerCaller_new ==
    [vectors |-> <<>>, pending_queries |-> <<>>, distances |-> <<>>,
     graph |-> GraphMem_new,
     query |-> 0, neighbors |-> <<>>, matched |-> <<>>, inserted |-> 0]

\* The channel of a coroutine for query q when search_to_insert_stream
\* returns: the ops sent by the task, how many of them the stream has
\* yielded, and the replies given.
Stream_new(q) == [query |-> q, ops |-> <<>>, received |-> 0, replies |-> <<>>]

\* Mutation of HawkSearcher_new: the rng is AesRng::from_random_seed(), so
\* each level it gives is another than the seed of the caller would give.
HawkSearcher_new_random_seed(seed, rng_seed) ==
    [seed |-> seed, rng_seed |-> [i \in 1..Len(rng_seed) |-> (rng_seed[i] + 1) % 2],
     rng |-> 0, graph |-> GraphMem_new,
     neighbors |-> <<>>, calls |-> <<>>, first_calls |-> <<>>, panicked |-> FALSE]

\* HawkSearcher::new(vector_store, graph_store, rng) for a second searcher
\* over a new GraphMem, its rng seeded from the caller's: the searcher, with
\* the levels the seed of the first searcher and its own make select_layer
\* return, one per draw.
\* calls are the backend calls it has made, first_calls those of the first
\* searcher.
HawkSearcher_new(seed, rng_seed) ==
    [seed |-> seed, rng_seed |-> rng_seed, rng |-> 0, graph |-> GraphMem_new,
     neighbors |-> <<>>, calls |-> <<>>, first_calls |-> <<>>, panicked |-> FALSE]

\* LinearDb::new, and no insert made yet.
LinearDb_new == [vectors |-> <<>>, result |-> <<>>]

\* The other hosts as constructed, with nothing done yet.
InitOtherHosts ==
    /\ pg = GraphPg_new
    /\ calls = <<>>
    /\ eager = EagerCaller_new
    /\ co = Stream_new(0)
    /\ second = HawkSearcher_new(<<>>, <<>>)
    /\ linear = LinearDb_new
    /\ held = <<>>

PointIds == 1..Len(points)

Persistent == {p \in PointIds : points[p].is_persistent}

Init ==
    /\ params \in ParamChoices
    /\ rng = 0
    /\ points = <<>>
    /\ graph = GraphMem_new
    /\ pc = "idle"
    /\ query = 0
    /\ neighbors = <<>>
    /\ matched = <<>>
    /\ inserted = 0
    /\ level = <<>>
    /\ reads = <<>>
    /\ writes = <<>>
    /\ chosen = <<>>
    /\ InitOtherHosts

\* LazyMemoryStore::prepare_query
CallerPrepareQuery(raw_query) ==
    /\ pc \in {"idle", "inserted"}
    /\ Len(points) < MaxVectors
    /\ points' = Append(points, [data |-> raw_query, is_persistent |-> FALSE])
    /\ pc' = "prepared"
    /\ query' = Len(points) + 1
    /\ neighbors' = <<>>
    /\ matched' = <<>>
    /\ inserted' = 0
    /\ level' = <<>>
    /\ reads' = <<>>
    /\ writes' = <<>>
    /\ UNCHANGED <<params, rng, graph, chosen>>

PrepareQuery(raw_query) == CallerPrepareQuery(raw_query) /\ UNCHANGED other_hosts

\* What the caller has when search_to_insert returns r, or panics.
search_to_insert_returns(r) ==
    /\ neighbors' = r.links
    /\ reads' = r.log
    /\ pc' = IF r.panicked THEN "panicked" ELSE "searched"

\* Mutation of CallerSearchToInsert: the search draws a layer from rng, as
\* select_layer does.
CallerSearchToInsert_selecting_layer(q) ==
    /\ \/ pc = "prepared" /\ q = query
       \/ pc \in {"idle", "inserted"} /\ points[q].is_persistent
    /\ search_to_insert_returns(search_to_insert(graph, q))
    /\ query' = q
    /\ matched' = <<>>
    /\ inserted' = 0
    /\ level' = <<>>
    /\ writes' = <<>>
    /\ rng' = rng + 1
    /\ UNCHANGED <<params, points, graph, chosen>>

\* HawkSearcher::search_to_insert
CallerSearchToInsert(q) ==
    /\ \/ pc = "prepared" /\ q = query
       \/ pc \in {"idle", "inserted"} /\ points[q].is_persistent
    /\ search_to_insert_returns(search_to_insert(graph, q))
    /\ query' = q
    /\ matched' = <<>>
    /\ inserted' = 0
    /\ level' = <<>>
    /\ writes' = <<>>
    /\ UNCHANGED <<params, rng, points, graph, chosen>>

SearchToInsert(q) == CallerSearchToInsert(q) /\ UNCHANGED other_hosts

\* HawkSearcher::is_match
CallerIsMatch ==
    /\ pc = "searched"
    /\ matched' = <<is_match(neighbors)>>
    /\ pc' = "checked"
    /\ UNCHANGED <<params, rng, points, graph, query, neighbors, inserted,
                   level, reads, writes, chosen>>

IsMatch == CallerIsMatch /\ UNCHANGED other_hosts

\* Mutation of CallerVectorStoreInsert: a vector that is stored already is
\* handed out again for a second insert.
CallerVectorStoreInsert_again ==
    /\ pc = "checked"
    /\ points' = [points EXCEPT ![query].is_persistent = TRUE]
    /\ inserted' = query
    /\ pc' = "stored"
    /\ UNCHANGED <<params, rng, graph, query, neighbors, matched, level,
                   reads, writes, chosen>>

\* LazyMemoryStore::insert
CallerVectorStoreInsert ==
    /\ pc = "checked"
    /\ ~points[query].is_persistent
    /\ points' = [points EXCEPT ![query].is_persistent = TRUE]
    /\ inserted' = query
    /\ pc' = "stored"
    /\ UNCHANGED <<params, rng, graph, query, neighbors, matched, level,
                   reads, writes, chosen>>

VectorStoreInsert == CallerVectorStoreInsert /\ UNCHANGED other_hosts

\* What the stores hold when insert_from_search_results returns r, or panics.
insert_from_search_results_returns(r) ==
    /\ graph' = r.g
    /\ writes' = r.log
    /\ pc' = IF r.panicked THEN "panicked" ELSE "inserted"

\* HawkSearcher::insert_from_search_results; l is what select_layer returns.
CallerInsertFromSearchResults(l) ==
    /\ pc = "stored"
    /\ insert_from_search_results_returns(
           insert_from_search_results(graph, inserted, neighbors, l))
    /\ rng' = rng + 1
    /\ level' = <<l>>
    /\ chosen' = (inserted :> l) @@ chosen
    /\ UNCHANGED <<params, points, query, neighbors, matched, inserted, reads>>

InsertFromSearchResults(l) == CallerInsertFromSearchResults(l) /\ UNCHANGED other_hosts

\* The caller drops a search result without inserting.
CallerDiscard ==
    /\ pc = "checked"
    /\ points[query].is_persistent
    /\ pc' = "idle"
    /\ query' = 0
    /\ neighbors' = <<>>
    /\ matched' = <<>>
    /\ reads' = <<>>
    /\ UNCHANGED <<params, rng, points, graph, inserted, level, writes, chosen>>

Discard == CallerDiscard /\ UNCHANGED other_hosts

Next ==
    \/ \E raw_query \in RawQueries : PrepareQuery(raw_query)
    \/ \E q \in PointIds : SearchToInsert(q)
    \/ IsMatch
    \/ VectorStoreInsert
    \/ \E l \in LevelChoices : InsertFromSearchResults(l)
    \/ Discard

Spec == Init /\ [][Next]_vars

(***************************************************************************)
(* Properties.                                                             *)
(***************************************************************************)

\* The vectors inserted into the graph so far.
Inserted == DOMAIN chosen

LayerCount(g) == IF Len(g.entry_point) = 0 THEN 0 ELSE g.entry_point[1].layer_count

\* The Hamming distance of two points, from their data.
Hamming(p1, p2) == count_ones_xor(points[p1].data, points[p2].data)

PairwiseNonMatching ==
    \A v1, v2 \in Inserted : v1 # v2 => Hamming(v1, v2) # 0

\* A search of an inserted query has been made and tested for a match.
Researched == pc = "checked" /\ query \in Inserted

WithinCapacity ==
    /\ Cardinality(Inserted) <= params.ef
    /\ Cardinality(Inserted) <= params.M + 1
    /\ Cardinality(Inserted) <= params.Mmax0 + 1

VectorSet(queue) == {queue[i][1] : i \in 1..Len(queue)}

\* The cap of a link list on layer lc, from the parameters.
Cap(lc) == IF lc = 0 THEN params.Mmax0 ELSE params.Mmax

\* The layers an insert connects: 0 .. min(l + 1, L) - 1.
ConnectedLayers == 0..(Min(level[1] + 1, Len(neighbors)) - 1)

\* The M nearest of links[lc], as positions in neighbors[lc + 1].
NearestM(lc) == 1..Min(params.M, Len(neighbors[lc + 1]))

FullOfNearer(links, lc, dist) ==
    /\ Len(links) = Cap(lc)
    /\ \A j \in 1..Len(links) : less_than(links[j][2], dist)

C3_DegreeCaps ==
    /\ \A lc \in 0..(Len(graph.layers) - 1) :
           \A base \in DOMAIN graph.layers[lc + 1] :
               Len(get_links(graph, base, lc)) <= Cap(lc)
    /\ \A k \in 1..Len(writes) :
           writes[k].op = "set_links" =>
               /\ Len(writes[k].links) <= Cap(writes[k].lc)
               /\ writes[k].base = inserted => Len(writes[k].links) <= params.M

\* With Mmax = 1 and Mmax0 = 2: a full list on layer 0 and a full list above.
C3_Witness ==
    /\ params.Mmax = 1 /\ params.Mmax0 = 2
    /\ Len(graph.layers) = 2
    /\ \E base \in DOMAIN graph.layers[1] : Len(graph.layers[1][base]) = 2
    /\ \E base \in DOMAIN graph.layers[2] : Len(graph.layers[2][base]) = 1

\* C4: the layer_count of the stored entry point never decreases from one
\* state to the next, and it is at least 1 once a vector has been inserted.
C4_EntryPointMonotone ==
    /\ [](rng >= 1 => LayerCount(graph) >= 1)
    /\ [][LayerCount(graph') >= LayerCount(graph)]_vars

\* The entry point was promoted: the first vector got level 0, a later one
\* level 1, and the layer_count is now 2.
C4_Witness ==
    /\ pc = "inserted"
    /\ 1 \in Inserted /\ chosen[1] = 0
    /\ LayerCount(graph) = 2
    /\ graph.entry_point[1].vector_ref = inserted

\* C5: for a query that matches no vector inserted so far,
\* is_match(search_to_insert(q)) is false.
C5_NoMatchBeforeInsert ==
    (pc = "checked" /\ \A v \in Inserted : Hamming(query, v) # 0)
        => matched = <<FALSE>>

\* A query searched in a graph of two vectors, neither of which it matches.
C5_Witness ==
    /\ pc = "checked"
    /\ Cardinality(Inserted) = 2
    /\ \A v \in Inserted : Hamming(query, v) # 0
    /\ matched = <<FALSE>>

\* The caller holds the result of a search of the graph as it is now.
HoldsSearchResult == pc \in {"searched", "checked", "stored"}

\* C6: search_to_insert returns one queue per layer of the entry point (none
\* without an entry point); the queue at index lc is the one the traversal
\* of layer lc produced, started from the queue of the layer above (from the
\* entry point at the top), so it names only vectors of level lc or more.
C6_OneQueuePerLayer ==
    HoldsSearchResult =>
        /\ Len(neighbors) = LayerCount(graph)
        /\ Len(graph.entry_point) = 0 => neighbors = <<>>
        /\ \A lc \in 0..(Len(neighbors) - 1) :
               /\ \A v \in VectorSet(neighbors[lc + 1]) : chosen[v] >= lc
               /\ neighbors[lc + 1] =
                      search_layer(graph, query,
                                   IF lc + 1 = Len(neighbors)
                                   THEN search_init(graph, query).W
                                   ELSE neighbors[lc + 2],
                                   params.ef, lc).W

\* A result over two layers whose queues differ.
C6_Witness ==
    /\ HoldsSearchResult
    /\ Len(neighbors) = 2
    /\ VectorSet(neighbors[1]) # VectorSet(neighbors[2])

\* C8: immediately after insert_from_search_results(v, links) with chosen
\* level l, for every layer lc <= min(l, len(links) - 1), get_links(v, lc) is
\* the first min(M, len(links[lc])) pairs of links[lc], in the same order.
C8_ForwardLinks ==
    pc = "inserted" =>
        \A lc \in ConnectedLayers :
            get_links(graph, inserted, lc) =
                [i \in NearestM(lc) |-> neighbors[lc + 1][i]]

\* An insert on two layers whose layer-0 result was longer than M.
C8_Witness ==
    /\ pc = "inserted"
    /\ ConnectedLayers = {0, 1}
    /\ Len(neighbors[1]) > params.M
    /\ Len(get_links(graph, inserted, 0)) = params.M

\* The queue is ascending under less_than.
Ascending(queue) ==
    \A i \in 1..(Len(queue) - 1) : ~less_than(queue[i + 1][2], queue[i][2])

\* C10: every queue search_to_insert returns and every queue stored in the
\* graph is ascending: no pair is less_than the pair before it.
C10_QueuesAscending ==
    /\ \A i \in 1..Len(neighbors) : Ascending(neighbors[i])
    /\ \A lc \in 0..(Len(graph.layers) - 1) :
           \A base \in DOMAIN graph.layers[lc + 1] :
               Ascending(graph.layers[lc + 1][base])

\* A returned queue and a stored queue, each with a strictly nearer pair
\* before a farther one.
C10_Witness ==
    /\ \E i \in 1..Len(neighbors) :
           /\ Len(neighbors[i]) >= 2
           /\ less_than(neighbors[i][1][2], neighbors[i][2][2])
    /\ \E lc \in 0..(Len(graph.layers) - 1) :
           \E base \in DOMAIN graph.layers[lc + 1] :
               /\ Len(graph.layers[lc + 1][base]) >= 2
               /\ less_than(graph.layers[lc + 1][base][1][2],
                            graph.layers[lc + 1][base][2][2])

(***************************************************************************)
(* is_match on any list of queues a caller may pass.                       *)
(***************************************************************************)

\* The sequences over S of length at most 2.
UpTo2(S) == {<<>>} \cup {<<a>> : a \in S} \cup {<<a, b>> : a \in S, b \in S}

Point(data, is_persistent) == [data |-> data, is_persistent |-> is_persistent]

\* Two stored vectors and a query: the caller passes is_match lists of up to
\* two queues of up to two pairs (vector, distance of the query to it), in
\* any order, the empty list and empty queues included.
InitIsMatch ==
    /\ params = Param(2, 2, 2, 2)
    /\ rng = 0
    /\ \E raw_query \in RawQueries :
           points = <<Point(0, TRUE), Point(1, TRUE), Point(raw_query, FALSE)>>
    /\ graph = GraphMem_new
    /\ pc = "searched"
    /\ query = 3
    /\ neighbors \in UpTo2(UpTo2({<<v, eval_distance(3, v)>> : v \in {1, 2}}))
    /\ matched = <<>>
    /\ inserted = 0
    /\ level = <<>>
    /\ reads = <<>>
    /\ writes = <<>>
    /\ chosen = <<>>
    /\ InitOtherHosts

NextIsMatch == IsMatch

SpecIsMatch == InitIsMatch /\ [][NextIsMatch]_vars

\* C7: is_match(neighbors) is false when neighbors is empty or its first
\* (bottom-layer) queue is empty; otherwise it is true exactly when the
\* distance of the first pair of the first queue is a match (Hamming
\* distance 0), whatever the other queues hold.
C7_IsMatchBottomNearest ==
    pc = "checked" =>
        matched = << IF Len(neighbors) = 0 THEN FALSE
                     ELSE IF Len(neighbors[1]) = 0 THEN FALSE
                     ELSE Hamming(neighbors[1][1][2][1], neighbors[1][1][2][2]) = 0 >>

\* A match on the bottom layer's nearest pair while the bottom layer's
\* furthest pair and the top layer's nearest pair are no match.
C7_Witness ==
    /\ pc = "checked"
    /\ Len(neighbors) = 2
    /\ Len(neighbors[1]) = 2 /\ Len(neighbors[2]) = 1
    /\ ~store_is_match(neighbors[1][2][2])
    /\ ~store_is_match(neighbors[2][1][2])
    /\ matched = <<TRUE>>

(***************************************************************************)
(* search_to_insert on any link structure a graph store may hold.          *)
(***************************************************************************)

SearchVectors == {1, 2, 3}

\* A link list of base: up to two links to any vectors (to base itself, or
\* twice to the same vector, included).  The stored distance is not read by
\* the search.
LinkLists2(base) == UpTo2({<<e, eval_distance(base, e)>> : e \in SearchVectors})

LinkLists1(base) ==
    {<<>>} \cup {<<<<e, eval_distance(base, e)>>>> : e \in SearchVectors}

\* A layer: a link list for each vector.
LayersOf(a, b, c) == [base \in SearchVectors |-> CASE base = 1 -> a [] base = 2 -> b [] OTHER -> c]

Layers2 == {LayersOf(a, b, c) : a \in LinkLists2(1), b \in LinkLists2(2), c \in LinkLists2(3)}

Layers1 == {LayersOf(a, b, c) : a \in LinkLists1(1), b \in LinkLists1(2), c \in LinkLists1(3)}

\* One layer with lists of up to two links, or two layers with lists of up to
\* one link; any vector is the entry point.
SearchGraphs ==
    { [entry_point |-> <<EntryPoint(ev, 1)>>, layers |-> <<l0>>] :
          ev \in SearchVectors, l0 \in Layers2 }
    \cup
    { [entry_point |-> <<EntryPoint(ev, 2)>>, layers |-> <<l0, l1>>] :
          ev \in SearchVectors, l0 \in Layers1, l1 \in Layers1 }

\* Three stored vectors and a prepared query at distances 2, 1 and 2 from
\* them, over any such graph, with ef = 1 or ef = 2.
InitSearch ==
    /\ params \in {Param(1, 1, 1, 1), Param(2, 2, 2, 2)}
    /\ rng = 0
    /\ points = <<Point(0, TRUE), Point(1, TRUE), Point(6, TRUE), Point(3, FALSE)>>
    /\ graph \in SearchGraphs
    /\ pc = "prepared"
    /\ query = 4
    /\ neighbors = <<>>
    /\ matched = <<>>
    /\ inserted = 0
    /\ level = <<>>
    /\ reads = <<>>
    /\ writes = <<>>
    /\ chosen = <<>>
    /\ InitOtherHosts

NextSearch == \E q \in PointIds : SearchToInsert(q)

SpecSearch == InitSearch /\ [][NextSearch]_vars

RECURSIVE EvalsIn(_, _)
\* The vectors whose distance the reads of log ask for on the layers lcs, in
\* order.
EvalsIn(log, lcs) ==
    IF Len(log) = 0 THEN <<>>
    ELSE (IF log[1].lc \in lcs /\ log[1].op \in {"eval_distance", "eval_distance_batch"}
          THEN log[1].vectors ELSE <<>>) \o EvalsIn(Tail(log), lcs)

NoDuplicates(seq) == \A i, j \in 1..Len(seq) : i # j => seq[i] # seq[j]

\* C9: within the traversal of one layer, and across search_init and the
\* traversal of the top layer, no vector's distance to the query is asked
\* for twice.
C9_NoDistanceTwice ==
    HoldsSearchResult =>
        \A lc \in 0..(Len(neighbors) - 1) :
            NoDuplicates(EvalsIn(reads, IF lc + 1 = Len(neighbors) THEN {-1, lc} ELSE {lc}))

\* The links read of the k-th read, a get_links.
LinksRead(k) == get_links(graph, reads[k].base, reads[k].lc)

\* A traversal that expanded a candidate whose list names a vector twice,
\* and another candidate of the same layer that names that vector too.
C9_Witness ==
    /\ HoldsSearchResult
    /\ \E k1, k2 \in 1..Len(reads) :
           /\ k1 # k2
           /\ reads[k1].op = "get_links" /\ reads[k2].op = "get_links"
           /\ reads[k1].lc = reads[k2].lc
           /\ Len(LinksRead(k1)) = 2
           /\ LinksRead(k1)[1][1] = LinksRead(k1)[2][1]
           /\ LinksRead(k1)[1][1] \in VectorSet(LinksRead(k2))
           /\ LinksRead(k1)[1][1] # reads[k1].base

(***************************************************************************)
(* A graph store driven directly, as test_db drives GraphPg: any sequence  *)
(* of up to MaxCalls calls on a new GraphMem, or on a new GraphPg.  pc     *)
(* names the store; a call that panics ends the sequence.                  *)
(***************************************************************************)

\* The number of calls made on the store.
MaxCalls == 3

\* Two vectors, one of them with a two-digit id.
StoreVectors == {1, 12}

\* The layer indices asked for; a new store has no layer.
StoreLayers == {0, 1}

StoreEntryPoints ==
    {EntryPoint(1, 0)} \cup {EntryPoint(v, n) : v \in StoreVectors, n \in {1, 2}}

\* The queues written: one link, or two.
StoreQueues ==
    { <<<<12, <<1, 12>>>>>>, <<<<1, <<12, 1>>>>, <<12, <<12, 12>>>>>> }

\* One call as the caller saw it: links and entry_point are the arguments,
\* reply holds the value returned (nothing for a setter or after a panic).
Call(op, base, lc, links, entry_point, reply, panicked) ==
    [op |-> op, base |-> base, lc |-> lc, links |-> links,
     entry_point |-> entry_point, reply |-> reply, panicked |-> panicked]

\* The last call panicked: the caller is gone.
Panicked == Len(calls) > 0 /\ calls[Len(calls)].panicked

CanCall(store) == pc = store /\ Len(calls) < MaxCalls /\ ~Panicked

store_frame ==
    <<params, rng, points, pc, query, neighbors, matched, inserted, level,
      reads, writes, chosen, eager, co, second, linear, held>>

InitStore ==
    /\ params = Param(1, 1, 1, 1)
    /\ rng = 0
    /\ points = <<>>
    /\ graph = GraphMem_new
    /\ pc \in {"graph_mem", "graph_pg"}
    /\ query = 0
    /\ neighbors = <<>>
    /\ matched = <<>>
    /\ inserted = 0
    /\ level = <<>>
    /\ reads = <<>>
    /\ writes = <<>>
    /\ chosen = <<>>
    /\ InitOtherHosts

GraphMemGetEntryPoint ==
    /\ CanCall("graph_mem")
    /\ calls' = Append(calls, Call("get_entry_point", 0, 0, <<>>, <<>>,
                                   <<get_entry_point(graph)>>, FALSE))
    /\ UNCHANGED <<graph, pg>>
    /\ UNCHANGED store_frame

GraphMemSetEntryPoint(entry_point) ==
    /\ CanCall("graph_mem")
    /\ IF set_entry_point_aborts(graph, entry_point)
       THEN /\ graph' = graph
            /\ calls' = Append(calls, Call("set_entry_point", 0, 0, <<>>,
                                           <<entry_point>>, <<>>, TRUE))
       ELSE /\ graph' = set_entry_point(graph, entry_point)
            /\ calls' = Append(calls, Call("set_entry_point", 0, 0, <<>>,
                                           <<entry_point>>, <<>>, FALSE))
    /\ UNCHANGED pg
    /\ UNCHANGED store_frame

GraphMemGetLinks(base, lc) ==
    /\ CanCall("graph_mem")
    /\ IF get_links_panics(graph, lc)
       THEN calls' = Append(calls, Call("get_links", base, lc, <<>>, <<>>, <<>>, TRUE))
       ELSE calls' = Append(calls, Call("get_links", base, lc, <<>>, <<>>,
                                        <<get_links(graph, base, lc)>>, FALSE))
    /\ UNCHANGED <<graph, pg>>
    /\ UNCHANGED store_frame

GraphMemSetLinks(base, links, lc) ==
    /\ CanCall("graph_mem")
    /\ IF set_links_panics(graph, lc)
       THEN /\ graph' = graph
            /\ calls' = Append(calls, Call("set_links", base, lc, links, <<>>, <<>>, TRUE))
       ELSE /\ graph' = set_links(graph, base, links, lc)
            /\ calls' = Append(calls, Call("set_links", base, lc, links, <<>>, <<>>, FALSE))
    /\ UNCHANGED pg
    /\ UNCHANGED store_frame

GraphPgGetEntryPoint ==
    /\ CanCall("graph_pg")
    /\ calls' = Append(calls, Call("get_entry_point", 0, 0, <<>>, <<>>,
                                   <<GraphPg_get_entry_point(pg)>>, FALSE))
    /\ UNCHANGED <<graph, pg>>
    /\ UNCHANGED store_frame

GraphPgSetEntryPoint(entry_point) ==
    /\ CanCall("graph_pg")
    /\ pg' = GraphPg_set_entry_point(pg, entry_point)
    /\ calls' = Append(calls, Call("set_entry_point", 0, 0, <<>>,
                                   <<entry_point>>, <<>>, FALSE))
    /\ UNCHANGED graph
    /\ UNCHANGED store_frame

GraphPgGetLinks(base, lc) ==
    /\ CanCall("graph_pg")
    /\ calls' = Append(calls, Call("get_links", base, lc, <<>>, <<>>,
                                   <<GraphPg_get_links(pg, base, lc)>>, FALSE))
    /\ UNCHANGED <<graph, pg>>
    /\ UNCHANGED store_frame

GraphPgSetLinks(base, links, lc) ==
    /\ CanCall("graph_pg")
    /\ pg' = GraphPg_set_links(pg, base, links, lc)
    /\ calls' = Append(calls, Call("set_links", base, lc, links, <<>>, <<>>, FALSE))
    /\ UNCHANGED graph
    /\ UNCHANGED store_frame

NextStore ==
    \/ GraphMemGetEntryPoint
    \/ \E entry_point \in StoreEntryPoints : GraphMemSetEntryPoint(entry_point)
    \/ \E base \in StoreVectors, lc \in StoreLayers : GraphMemGetLinks(base, lc)
    \/ \E base \in StoreVectors, links \in StoreQueues, lc \in StoreLayers :
           GraphMemSetLinks(base, links, lc)
    \/ GraphPgGetEntryPoint
    \/ \E entry_point \in StoreEntryPoints : GraphPgSetEntryPoint(entry_point)
    \/ \E base \in StoreVectors, lc \in StoreLayers : GraphPgGetLinks(base, lc)
    \/ \E base \in StoreVectors, links \in StoreQueues, lc \in StoreLayers :
           GraphPgSetLinks(base, links, lc)

SpecStore == InitStore /\ [][NextStore]_vars

\* The calls among the first k that completed and are set_links(base, _, lc).
SetLinksCalls(k, base, lc) ==
    {j \in 1..k : /\ calls[j].op = "set_links" /\ ~calls[j].panicked
                  /\ calls[j].base = base /\ calls[j].lc = lc}

SetEntryPointCalls(k) ==
    {j \in 1..k : calls[j].op = "set_entry_point" /\ ~calls[j].panicked}

Latest(S) == CHOOSE j \in S : \A i \in S : i <= j

\* The queue of the latest completed set_links(base, _, lc) among the first k
\* calls; the empty queue when there is none.
LatestLinks(k, base, lc) ==
    IF SetLinksCalls(k, base, lc) = {} THEN <<>>
    ELSE calls[Latest(SetLinksCalls(k, base, lc))].links

\* The entry point of the latest completed set_entry_point among the first k
\* calls, as an Option.
LatestEntryPoint(k) ==
    IF SetEntryPointCalls(k) = {} THEN <<>>
    ELSE calls[Latest(SetEntryPointCalls(k))].entry_point

\* C11: GraphMem.set_entry_point(ep) aborts exactly when an entry point is
\* stored whose layer_count is greater than or equal to ep.layer_count (with
\* none stored, any layer_count is accepted); when it aborts, the entry point
\* and the layers are as before the call, and otherwise ep is stored.
C11_SetEntryPointAborts ==
    [][ ( /\ pc = "graph_mem"
          /\ Len(calls') = Len(calls) + 1
          /\ calls'[Len(calls')].op = "set_entry_point" )
        => LET call == calls'[Len(calls')]
               ep   == call.entry_point[1]
           IN  /\ call.panicked <=>
                      ( /\ Len(graph.entry_point) = 1
                        /\ graph.entry_point[1].layer_count >= ep.layer_count )
               /\ call.panicked => graph' = graph
               /\ ~call.panicked => get_entry_point(graph') = <<ep>> ]_vars

\* A first set_entry_point with layer_count 0 was accepted, a second with
\* layer_count 1 too, and a third with layer_count 1 again aborted, leaving
\* the second stored.
C11_Witness ==
    /\ pc = "graph_mem"
    /\ Len(calls) = 3
    /\ \A k \in 1..3 : calls[k].op = "set_entry_point"
    /\ calls[1].entry_point[1].layer_count = 0 /\ ~calls[1].panicked
    /\ calls[2].entry_point[1].layer_count = 1 /\ ~calls[2].panicked
    /\ calls[3].entry_point[1].layer_count = 1 /\ calls[3].panicked
    /\ get_entry_point(graph) = calls[2].entry_point

\* C12: on GraphPg, a set_entry_point whose layer_count is not strictly
\* greater than the layer_count of the entry point stored fails, and the
\* stored entry point is not replaced.
C12_GraphPgRejectsNotHigher ==
    pc = "graph_pg" =>
        \A k \in 1..Len(calls) :
            ( /\ calls[k].op = "set_entry_point"
              /\ Len(LatestEntryPoint(k - 1)) = 1
              /\ calls[k].entry_point[1].layer_count
                     <= LatestEntryPoint(k - 1)[1].layer_count )
            => ( /\ calls[k].panicked
                 /\ k = Len(calls) =>
                        GraphPg_get_entry_point(pg) = LatestEntryPoint(k - 1) )

\* C13: get_links(base, lc) returns the empty queue and does not fail when
\* no links were ever set for (base, lc), on either store, whatever the
\* layers created so far.
C13_GetLinksNeverFails ==
    \A k \in 1..Len(calls) :
        (calls[k].op = "get_links" /\ SetLinksCalls(k - 1, calls[k].base, calls[k].lc) = {})
        => (~calls[k].panicked /\ calls[k].reply = << <<>> >>)

\* The layers of the store under test that get_links can read.
ReadableLayers ==
    IF pc = "graph_mem" THEN {lc \in StoreLayers : ~get_links_panics(graph, lc)}
    ELSE StoreLayers

StoredLinks(base, lc) ==
    IF pc = "graph_mem" THEN get_links(graph, base, lc)
    ELSE GraphPg_get_links(pg, base, lc)

StoredEntryPoint ==
    IF pc = "graph_mem" THEN get_entry_point(graph) ELSE GraphPg_get_entry_point(pg)

\* C14: on either store, a get_entry_point that returns gives the entry point
\* of the latest completed set_entry_point (none before the first), and a
\* get_links(base, lc) that returns gives the queue of the latest completed
\* set_links(base, _, lc) (the empty queue before the first); the store holds
\* just that for every base and layer, so a set_links replaces the queue of
\* its own (base, lc) and changes nothing else.
C14_GraphStoreRegister ==
    pc \in {"graph_mem", "graph_pg"} =>
        /\ \A k \in 1..Len(calls) :
               /\ (calls[k].op = "get_entry_point" /\ ~calls[k].panicked)
                      => calls[k].reply = <<LatestEntryPoint(k - 1)>>
               /\ (calls[k].op = "get_links" /\ ~calls[k].panicked)
                      => calls[k].reply = <<LatestLinks(k - 1, calls[k].base, calls[k].lc)>>
        /\ StoredEntryPoint = LatestEntryPoint(Len(calls))
        /\ \A base \in StoreVectors : \A lc \in ReadableLayers :
               StoredLinks(base, lc) = LatestLinks(Len(calls), base, lc)

\* Two different queues were set for the same (base, lc) and the third call,
\* a get_links of it, returned the second.
C14_Witness ==
    /\ pc \in {"graph_mem", "graph_pg"}
    /\ Len(calls) = 3
    /\ calls[1].op = "set_links" /\ calls[2].op = "set_links"
    /\ calls[3].op = "get_links"
    /\ calls[1].base = calls[3].base /\ calls[2].base = calls[3].base
    /\ calls[1].lc = calls[3].lc /\ calls[2].lc = calls[3].lc
    /\ calls[1].links # calls[2].links
    /\ calls[3].reply = <<calls[2].links>>

(***************************************************************************)
(* Two searchers built with the same parameters and the same seed, one     *)
(* over a LazyMemoryStore and one over an EagerMemoryStore, each with its  *)
(* own GraphMem, and a caller that makes every call on both.  The caller   *)
(* may drop a query it does not insert, so the ids of the two stores drift *)
(* apart: the lazy store numbers every prepared query, the eager store     *)
(* numbers its vectors in the order of insertion.                          *)
(***************************************************************************)

TwinParams == {Param(1, 1, 1, 1), Param(2, 1, 1, 2), Param(2, 2, 2, 2)}

\* The eager store's distances only grows: no search is started once it
\* holds this many values.
MaxDistances == 4

\* EagerMemoryStore::prepare_query
EagerPrepareQuery(raw_query) ==
    eager' = [eager EXCEPT !.pending_queries = Append(@, raw_query),
                           !.query = -(Len(eager.pending_queries) + 1),
                           !.neighbors = <<>>,
                           !.matched = <<>>,
                           !.inserted = 0]

RECURSIVE pushed_distances(_, _)
\* The values the eval_distance calls of a search push to distances, in the
\* order of the calls.
pushed_distances(log, query_ref) ==
    IF Len(log) = 0 THEN <<>>
    ELSE [i \in 1..Len(log[1].vectors) |->
             EagerMemoryStore_eval_distance(query_ref, log[1].vectors[i])[1]]
         \o pushed_distances(Tail(log), query_ref)

\* What the eager store and its caller hold when search_to_insert returns r.
eager_search_to_insert_returns(r, query_ref) ==
    eager' = [eager EXCEPT !.neighbors = r.links,
                           !.distances = @ \o pushed_distances(r.log, query_ref),
                           !.query = query_ref,
                           !.matched = <<>>,
                           !.inserted = 0]

\* search_to_insert of the searcher over the eager store.
EagerSearchToInsert(query_ref) ==
    eager_search_to_insert_returns(search_to_insert(eager.graph, query_ref), query_ref)

EagerIsMatch == eager' = [eager EXCEPT !.matched = <<is_match(eager.neighbors)>>]

\* EagerMemoryStore::insert
EagerVectorStoreInsert ==
    eager' = [eager EXCEPT !.vectors = Append(@, eager.pending_queries[-eager.query]),
                           !.inserted = -(Len(eager.vectors) + 1)]

\* insert_from_search_results of the searcher over the eager store, with the
\* level its random source gives: the same seed, so the same level.
EagerInsertFromSearchResults(l) ==
    LET r == insert_from_search_results(eager.graph, eager.inserted, eager.neighbors, l)
    IN  eager' = [eager EXCEPT !.graph = r.g]

EagerDiscard ==
    eager' = [eager EXCEPT !.query = 0, !.neighbors = <<>>, !.matched = <<>>]

twin_frame == <<pg, calls, co, second, linear, held>>

InitTwin ==
    /\ params \in TwinParams
    /\ rng = 0
    /\ points = <<>>
    /\ graph = GraphMem_new
    /\ pc = "idle"
    /\ query = 0
    /\ neighbors = <<>>
    /\ matched = <<>>
    /\ inserted = 0
    /\ level = <<>>
    /\ reads = <<>>
    /\ writes = <<>>
    /\ chosen = <<>>
    /\ InitOtherHosts

TwinPrepareQuery(raw_query) ==
    CallerPrepareQuery(raw_query) /\ EagerPrepareQuery(raw_query) /\ UNCHANGED twin_frame

\* The k-th prepared query is PointId k - 1 in the lazy store and
\* QueryRef(k - 1) in the eager one.
TwinSearchToInsert(q) ==
    /\ Len(eager.distances) < MaxDistances
    /\ CallerSearchToInsert(q)
    /\ EagerSearchToInsert(-q)
    /\ UNCHANGED twin_frame

TwinIsMatch == CallerIsMatch /\ EagerIsMatch /\ UNCHANGED twin_frame

TwinVectorStoreInsert ==
    CallerVectorStoreInsert /\ EagerVectorStoreInsert /\ UNCHANGED twin_frame

TwinInsertFromSearchResults(l) ==
    /\ CallerInsertFromSearchResults(l)
    /\ EagerInsertFromSearchResults(l)
    /\ UNCHANGED twin_frame

\* The caller drops a search result without inserting, of an inserted query
\* or of a new one.
TwinDiscard ==
    /\ pc = "checked"
    /\ pc' = "idle"
    /\ query' = 0
    /\ neighbors' = <<>>
    /\ matched' = <<>>
    /\ reads' = <<>>
    /\ UNCHANGED <<params, rng, points, graph, inserted, level, writes, chosen>>
    /\ EagerDiscard
    /\ UNCHANGED twin_frame

NextTwin ==
    \/ \E raw_query \in RawQueries : TwinPrepareQuery(raw_query)
    \/ \E q \in PointIds : TwinSearchToInsert(q)
    \/ TwinIsMatch
    \/ TwinVectorStoreInsert
    \/ \E l \in LevelChoices : TwinInsertFromSearchResults(l)
    \/ TwinDiscard

SpecTwin == InitTwin /\ [][NextTwin]_vars

\* The VectorRef the eager store gave the vector that is PointId p in the
\* lazy store: vectors are pushed in the order of insertion.
EagerRef(p) == -Cardinality({x \in 1..p : points[x].is_persistent})

\* The two queues name corresponding vectors in the same order, at the same
\* distances.
Corresponds(lazy_queue, eager_queue) ==
    /\ Len(eager_queue) = Len(lazy_queue)
    /\ \A i \in 1..Len(lazy_queue) :
           /\ eager_queue[i][1] = EagerRef(lazy_queue[i][1])
           /\ eager_queue[i][2][1] = actually_evaluate_distance(lazy_queue[i][2])

\* C15: the same calls with the same seed on a searcher over an eager store
\* and on one over a lazy store give the same is_match outcomes, queues that
\* name corresponding vectors in the same order, and graphs with the
\* corresponding entry point and corresponding links.
C15_EagerLazyCorrespond ==
    /\ eager.matched = matched
    /\ Len(eager.neighbors) = Len(neighbors)
    /\ \A i \in 1..Len(neighbors) : Corresponds(neighbors[i], eager.neighbors[i])
    /\ Len(eager.graph.entry_point) = Len(graph.entry_point)
    /\ Len(graph.entry_point) = 1 =>
           eager.graph.entry_point[1] =
               EntryPoint(EagerRef(graph.entry_point[1].vector_ref),
                          graph.entry_point[1].layer_count)
    /\ Len(eager.graph.layers) = Len(graph.layers)
    /\ \A lc \in 0..(Len(graph.layers) - 1) :
           /\ DOMAIN eager.graph.layers[lc + 1]
                  = {EagerRef(base) : base \in DOMAIN graph.layers[lc + 1]}
           /\ \A base \in DOMAIN graph.layers[lc + 1] :
                  Corresponds(get_links(graph, base, lc),
                              get_links(eager.graph, EagerRef(base), lc))

\* After a dropped query the ids differ; a search on a graph over two layers
\* then returned two vectors at the same distance on the bottom layer, and
\* is_match was evaluated.
C15_Witness ==
    /\ pc = "checked"
    /\ Len(neighbors) = 2
    /\ Len(neighbors[1]) = 2
    /\ EagerRef(neighbors[1][2][1]) # -neighbors[1][2][1]
    /\ ~less_than(neighbors[1][1][2], neighbors[1][2][2])
    /\ Len(eager.distances) >= 3

(***************************************************************************)
(* The coroutine of search_to_insert_stream: a task that runs              *)
(* search_to_insert over OpsCollector backends.  A backend call sends an   *)
(* Op to the channel and awaits the reply of the orchestrator.  The task   *)
(* is deterministic, so where it stands is given by the replies it has     *)
(* received: a task is [replies, ops, status], the replies not consumed    *)
(* yet, the ops sent so far and "run", "wait" (a reply is awaited and none *)
(* is left), "panic" or "done".  An Op is a record of all the fields of    *)
(* the enum, those of other variants left empty; reply tells whether the   *)
(* variant carries a oneshot sender.                                       *)
(***************************************************************************)

Op(op, q, vectors, distance, distances, base, lc, result, reply) ==
    [op |-> op, query |-> q, vectors |-> vectors, distance |-> distance,
     distances |-> distances, base |-> base, lc |-> lc, result |-> result,
     reply |-> reply]

EvalDistanceBatch(q, vectors) ==
    Op("EvalDistanceBatch", q, vectors, 0, <<>>, 0, 0, <<>>, TRUE)

LessThanBatch(distance, distances) ==
    Op("LessThanBatch", 0, <<>>, distance, distances, 0, 0, <<>>, TRUE)

GetEntryPoint == Op("GetEntryPoint", 0, <<>>, 0, <<>>, 0, 0, <<>>, TRUE)

GetLinks(base, lc) == Op("GetLinks", 0, <<>>, 0, <<>>, base, lc, <<>>, TRUE)

SearchResult(q, result) ==
    Op("SearchResult", q, <<>>, 0, <<>>, 0, 0, result, FALSE)

\* self.ops.send(op).await.unwrap() alone, as set_links and set_entry_point
\* do: no reply is awaited.
send(task, op) ==
    IF task.status # "run" THEN task
    ELSE [task EXCEPT !.ops = Append(@, op)]

\* self.ops.send(op).await.unwrap(); get_reply.await.unwrap()
send_and_get_reply(task, op) ==
    IF task.status # "run" THEN task
    ELSE IF Len(task.replies) = 0
         THEN [task EXCEPT !.ops = Append(@, op), !.status = "wait"]
         ELSE [task EXCEPT !.ops = Append(@, op), !.replies = Tail(@)]

\* The reply the next send_and_get_reply of the task gets, if there is one.
next_reply(task) ==
    IF task.status = "run" /\ Len(task.replies) > 0 THEN Head(task.replies) ELSE <<>>

OpsCollector_eval_distance_batch(task, q, vectors) ==
    [task |-> send_and_get_reply(task, EvalDistanceBatch(q, vectors)),
     value |-> next_reply(task)]

\* r.pop().unwrap() on the reply r of a batch: its last value, and a panic
\* when it is empty.
pop_unwrap(r, none) ==
    IF r.task.status # "run" THEN [task |-> r.task, value |-> none]
    ELSE IF Len(r.value) = 0
         THEN [task |-> [r.task EXCEPT !.status = "panic"], value |-> none]
         ELSE [task |-> r.task, value |-> r.value[Len(r.value)]]

OpsCollector_eval_distance(task, q, vector) ==
    pop_unwrap(OpsCollector_eval_distance_batch(task, q, <<vector>>), 0)

OpsCollector_less_than_batch(task, distance, distances) ==
    [task |-> send_and_get_reply(task, LessThanBatch(distance, distances)),
     value |-> next_reply(task)]

OpsCollector_less_than(task, distance1, distance2) ==
    pop_unwrap(OpsCollector_less_than_batch(task, distance1, <<distance2>>), FALSE)

OpsCollector_get_entry_point(task) ==
    [task |-> send_and_get_reply(task, GetEntryPoint), value |-> next_reply(task)]

\* Mutation of OpsCollector_get_links: the op is sent and no reply awaited;
\* the links are taken to be empty.
OpsCollector_get_links_no_reply(task, base, lc) ==
    [task |-> send(task, GetLinks(base, lc)), value |-> <<>>]

OpsCollector_get_links(task, base, lc) ==
    [task |-> send_and_get_reply(task, GetLinks(base, lc)), value |-> next_reply(task)]

(***************************************************************************)
(* The searcher over OpsCollector.  Each operator takes the task and gives *)
(* it back with its result; the result of an await is handed to the        *)
(* operator of the code after it, which does nothing when the task no      *)
(* longer runs.                                                            *)
(***************************************************************************)

RECURSIVE stream_search_sorted_loop(_, _, _, _, _)
\* search_sorted, each less_than a LessThanBatch op; r is the comparison of
\* distances[mid] with target.
stream_search_sorted_match(r, distances, target, left, mid, right) ==
    stream_search_sorted_loop(r.task, distances, target,
                              IF r.value THEN mid + 1 ELSE left,
                              IF r.value THEN right ELSE mid)

stream_search_sorted_loop(task, distances, target, left, right) ==
    IF task.status # "run" \/ ~(left < right) THEN [task |-> task, value |-> left]
    ELSE LET mid == left + (right - left) \div 2
         IN  stream_search_sorted_match(
                 OpsCollector_less_than(task, distances[mid + 1], target),
                 distances, target, left, mid, right)

stream_search_sorted(task, distances, target) ==
    stream_search_sorted_loop(task, distances, target, 0, Len(distances))

\* self.queue.insert(index_asc, (to, dist)) of FurthestQueue::insert
stream_FurthestQueue_insert_at(index_asc, queue, to, dist) ==
    [task |-> index_asc.task,
     queue |-> IF index_asc.task.status = "run"
               THEN VecInsert(queue, index_asc.value, <<to, dist>>) ELSE queue]

stream_FurthestQueue_insert(task, queue, to, dist) ==
    stream_FurthestQueue_insert_at(
        stream_search_sorted(task, Distances(queue), dist), queue, to, dist)

\* self.queue.insert(index_des, (to, dist)) of NearestQueue::insert
stream_NearestQueue_insert_at(index_asc, queue, to, dist) ==
    [task |-> index_asc.task,
     queue |-> IF index_asc.task.status = "run"
               THEN VecInsert(queue, Len(queue) - index_asc.value, <<to, dist>>)
               ELSE queue]

stream_NearestQueue_insert(task, queue, to, dist) ==
    stream_NearestQueue_insert_at(
        stream_search_sorted(task, Reverse(Distances(queue)), dist), queue, to, dist)

\* search_init from W.insert on: W and the layer count.
stream_search_init_W(W, layer_count) ==
    [task |-> W.task, W |-> W.queue, layer_count |-> layer_count]

\* search_init from the distance of the entry vector on.
stream_search_init_distance(distance, entry_point) ==
    stream_search_init_W(
        stream_FurthestQueue_insert(distance.task, <<>>, entry_point.vector_ref,
                                    distance.value),
        entry_point.layer_count)

\* Mutation of stream_search_init_entry: without an entry point, the
\* distances of no vectors are asked for before returning.
stream_search_init_entry_eval_nothing(entry_point, q) ==
    IF entry_point.task.status # "run"
    THEN [task |-> entry_point.task, W |-> <<>>, layer_count |-> 0]
    ELSE IF Len(entry_point.value) = 0
    THEN [task |-> OpsCollector_eval_distance_batch(entry_point.task, q, <<>>).task,
          W |-> <<>>, layer_count |-> 0]
    ELSE stream_search_init_distance(
             OpsCollector_eval_distance(entry_point.task, q,
                                        entry_point.value[1].vector_ref),
             entry_point.value[1])

\* search_init from "if let Some(entry_point)" on.
stream_search_init_entry(entry_point, q) ==
    IF entry_point.task.status # "run" \/ Len(entry_point.value) = 0
    THEN [task |-> entry_point.task, W |-> <<>>, layer_count |-> 0]
    ELSE stream_search_init_distance(
             OpsCollector_eval_distance(entry_point.task, q,
                                        entry_point.value[1].vector_ref),
             entry_point.value[1])

stream_search_init(task, q) ==
    stream_search_init_entry(OpsCollector_get_entry_point(task), q)

\* The body of "for (e, eq) in c_links" after W.insert.
stream_visit_candidate_W(W2, C2, W, C, fq) ==
    IF W2.task.status # "run"
    THEN [task |-> W2.task, W |-> W, C |-> C, fq |-> fq]
    ELSE [task |-> W2.task, W |-> W2.queue, C |-> C2.queue,
          fq |-> get_furthest(W2.queue)[1][2]]

\* The body of "for (e, eq) in c_links" after C.insert; W1 is W after
\* pop_furthest, when it was full.
stream_visit_candidate_C(C2, W1, W, C, fq, e, eq) ==
    stream_visit_candidate_W(stream_FurthestQueue_insert(C2.task, W1, e, eq),
                             C2, W, C, fq)

\* The body of "for (e, eq) in c_links" after the comparison of eq with fq.
stream_visit_candidate_compared(better, W, C, fq, e, eq, ef) ==
    IF better.task.status # "run" \/ ~better.value
    THEN [task |-> better.task, W |-> W, C |-> C, fq |-> fq]
    ELSE stream_visit_candidate_C(
             stream_NearestQueue_insert(better.task, C, e, eq),
             IF Len(W) = ef THEN pop_furthest(W) ELSE W, W, C, fq, e, eq)

\* The body of "for (e, eq) in c_links" for one pair.
stream_visit_candidate(task, W, C, fq, e, eq, ef) ==
    IF task.status # "run" THEN [task |-> task, W |-> W, C |-> C, fq |-> fq]
    ELSE stream_visit_candidate_compared(
             IF Len(W) = ef THEN OpsCollector_less_than(task, eq, fq)
             ELSE [task |-> task, value |-> TRUE],
             W, C, fq, e, eq, ef)

RECURSIVE stream_visit_candidates(_, _, _, _, _, _, _, _)
\* The loop "for (e, eq) in c_links" after the pair i, which gave s.
stream_visit_candidates_next(s, e_batch, distances, i, ef) ==
    stream_visit_candidates(s.task, s.W, s.C, s.fq, e_batch, distances, i + 1, ef)

stream_visit_candidates(task, W, C, fq, e_batch, distances, i, ef) ==
    IF task.status # "run" \/ i > Len(e_batch)
    THEN [task |-> task, W |-> W, C |-> C, fq |-> fq]
    ELSE stream_visit_candidates_next(
             stream_visit_candidate(task, W, C, fq, e_batch[i], distances[i], ef),
             e_batch, distances, i, ef)

RECURSIVE stream_search_layer_loop(_, _, _, _, _, _, _, _)
\* The loop "while C.len() > 0" after the for loop, which gave s.
stream_search_layer_visited(s, f, q, ef, lc) ==
    stream_search_layer_loop(s.task, q, ef, lc, s.W, s.C, f.v, s.fq)

\* The loop from the reply of eval_distance_batch on: zip stops at the
\* shorter of e_batch and distances.
stream_search_layer_distances(distances, f, q, ef, lc, W, C1, fq) ==
    stream_search_layer_visited(
        stream_visit_candidates(
            distances.task, W, C1, fq,
            SubSeq(f.e_batch, 1, Min(Len(f.e_batch), Len(distances.value))),
            SubSeq(distances.value, 1, Min(Len(f.e_batch), Len(distances.value))),
            1, ef),
        f, q, ef, lc)

\* The loop from the reply of get_links on; f is e_batch, and v with e_batch
\* marked.
stream_search_layer_links(c_links, q, ef, lc, W, C1, v, fq) ==
    IF c_links.task.status # "run" THEN [task |-> c_links.task, W |-> W]
    ELSE LET f == filter_unvisited(c_links.value, 1, v, <<>>)
         IN  stream_search_layer_distances(
                 OpsCollector_eval_distance_batch(c_links.task, q, f.e_batch),
                 f, q, ef, lc, W, C1, fq)

\* The loop from the comparison of fq with cq on.
stream_search_layer_compared(stop, q, ef, lc, W, C, v, fq) ==
    IF stop.task.status # "run" \/ stop.value THEN [task |-> stop.task, W |-> W]
    ELSE stream_search_layer_links(
             OpsCollector_get_links(stop.task, C[Len(C)][1], lc),
             q, ef, lc, W, pop_nearest(C), v, fq)

\* The loop "while C.len() > 0".
stream_search_layer_loop(task, q, ef, lc, W, C, v, fq) ==
    IF task.status # "run" \/ Len(C) = 0 THEN [task |-> task, W |-> W]
    ELSE stream_search_layer_compared(
             OpsCollector_less_than(task, fq, C[Len(C)][2]),
             q, ef, lc, W, C, v, fq)

\* Mutation of stream_search_layer: the furthest distance starts at 0 and not
\* at that of the furthest of W.
stream_search_layer_fq_zero(task, q, W, ef, lc) ==
    IF task.status # "run" THEN [task |-> task, W |-> W]
    ELSE IF Len(W) = 0 THEN [task |-> [task EXCEPT !.status = "panic"], W |-> W]
    ELSE stream_search_layer_loop(task, q, ef, lc, W, from_furthest_queue(W),
                                  {W[i][1] : i \in 1..Len(W)}, 0)

stream_search_layer(task, q, W, ef, lc) ==
    IF task.status # "run" THEN [task |-> task, W |-> W]
    ELSE IF Len(W) = 0 THEN [task |-> [task EXCEPT !.status = "panic"], W |-> W]
    ELSE stream_search_layer_loop(task, q, ef, lc, W, from_furthest_queue(W),
                                  {W[i][1] : i \in 1..Len(W)}, get_furthest(W)[1][2])

RECURSIVE stream_search_layers(_, _, _, _, _)
\* The loop "for lc in (0..layer_count).rev()" after layer n - 1, which
\* gave r: links.push(W.clone()).
stream_search_layers_push(r, q, n, links) ==
    stream_search_layers(r.task, q, r.W, n - 1, Append(links, r.W))

\* The loop "for lc in (0..layer_count).rev()", from layer lc + 1 = n down.
stream_search_layers(task, q, W, n, links) ==
    IF task.status # "run" \/ n = 0 THEN [task |-> task, links |-> links]
    ELSE stream_search_layers_push(
             stream_search_layer(task, q, W, ef_for_layer(n - 1), n - 1), q, n, links)

\* links.reverse()
stream_search_to_insert_reverse(down) ==
    [task |-> down.task, links |-> Reverse(down.links)]

\* search_to_insert from the result of search_init on.
stream_search_to_insert_init(init, q) ==
    stream_search_to_insert_reverse(
        stream_search_layers(init.task, q, init.W, init.layer_count, <<>>))

stream_search_to_insert(task, q) ==
    stream_search_to_insert_init(stream_search_init(task, q), q)

\* tx.send(Op::SearchResult { query, result }) when the search gave r.
send_search_result(r, q) ==
    IF r.task.status # "run" THEN r.task
    ELSE [r.task EXCEPT !.ops = Append(@, SearchResult(q, r.links)),
                        !.status = "done"]

\* The task spawned by search_to_insert_stream(query), run on the replies
\* given: the search, then the send of SearchResult.
search_to_insert_stream(q, replies) ==
    send_search_result(
        stream_search_to_insert(
            [replies |-> replies, ops |-> <<>>, status |-> "run"], q), q)

(***************************************************************************)
(* SpecStream: an orchestrator drives one coroutine.  The task sends its   *)
(* next op when the channel of capacity 1 has room, the orchestrator takes *)
(* the op from the stream, and answers the oldest op that awaits a reply   *)
(* with any value of the type of its reply.                                *)
(***************************************************************************)

MaxReplies == 12

StreamParams == {Param(1, 1, 1, 1), Param(2, 2, 2, 2)}

StreamQueries == {7}

StreamVectors == {1, 2}

StreamLayerCounts == {0, 1, 2}

StreamDistances == {10, 20}

StreamQueues ==
    {<<>>, <<<<1, 10>>>>, <<<<2, 10>>>>, <<<<2, 10>>, <<1, 20>>>>}

\* The values an orchestrator answers op with: of the type of the reply
\* and, for a batch, as many as were asked for.
Replies(op) ==
    CASE op.op = "GetEntryPoint" ->
             {<<>>} \cup {<<EntryPoint(vector, n)>> :
                             vector \in StreamVectors, n \in StreamLayerCounts}
      [] op.op = "EvalDistanceBatch" ->
             [1..Len(op.vectors) -> StreamDistances]
      [] op.op = "LessThanBatch" ->
             [1..Len(op.distances) -> BOOLEAN]
      [] op.op = "GetLinks" -> StreamQueues
      [] OTHER -> {}

\* The task of the coroutine, as far as the replies given take it.
Task == search_to_insert_stream(co.query, co.replies)

\* The ops the stream has yielded that carry a reply sender.
Yielded == SelectSeq(SubSeq(co.ops, 1, co.received), LAMBDA op : op.reply)

\* The ops sent by the task that carry a reply sender.
Sent == SelectSeq(co.ops, LAMBDA op : op.reply)

\* The oldest reply sender the orchestrator holds and has not used, in a
\* sequence of at most one op.
Pending ==
    IF Len(co.replies) < Len(Yielded) THEN <<Yielded[Len(co.replies) + 1]>> ELSE <<>>

stream_frame ==
    <<params, rng, points, graph, pc, query, neighbors, matched, inserted,
      level, reads, writes, chosen, pg, calls, eager, second, linear, held>>

\* search_to_insert_stream(query) has returned the stream.
InitStream ==
    /\ params \in StreamParams
    /\ rng = 0
    /\ points = <<>>
    /\ graph = GraphMem_new
    /\ pc = "stream"
    /\ query = 0
    /\ neighbors = <<>>
    /\ matched = <<>>
    /\ inserted = 0
    /\ level = <<>>
    /\ reads = <<>>
    /\ writes = <<>>
    /\ chosen = <<>>
    /\ pg = GraphPg_new
    /\ calls = <<>>
    /\ eager = EagerCaller_new
    /\ co \in {Stream_new(q) : q \in StreamQueries}
    /\ second = HawkSearcher_new(<<>>, <<>>)
    /\ linear = LinearDb_new
    /\ held = <<>>

\* The task reaches its next "ops.send(op).await" or "tx.send(..).await"
\* and the channel of capacity 1 has room.
TaskSend ==
    /\ Len(co.ops) < Len(Task.ops)
    /\ Len(co.ops) - co.received < 1
    /\ co' = [co EXCEPT !.ops = Append(@, Task.ops[Len(co.ops) + 1])]
    /\ UNCHANGED stream_frame

\* stream.next().await yields an op.
StreamNext ==
    /\ co.received < Len(co.ops)
    /\ co' = [co EXCEPT !.received = @ + 1]
    /\ UNCHANGED stream_frame

\* reply.send(value) on the oldest reply sender not used yet.
StreamReply(value) ==
    /\ Len(Pending) = 1
    /\ Len(co.replies) < MaxReplies
    /\ co' = [co EXCEPT !.replies = Append(@, value)]
    /\ UNCHANGED stream_frame

NextStream ==
    \/ TaskSend
    \/ StreamNext
    \/ \E value \in UNION {Replies(Pending[i]) : i \in 1..Len(Pending)} :
           StreamReply(value)

SpecStream == InitStream /\ [][NextStream]_vars

(***************************************************************************)
(* Properties of the search as a reader, under Spec.                       *)
(***************************************************************************)

\* The backend operations that read.
ReadOps == {"get_entry_point", "get_links", "eval_distance", "eval_distance_batch"}

\* A step of search_to_insert or of is_match.
SearchOrMatchStep ==
    \/ pc \in {"prepared", "idle", "inserted"} /\ pc' \in {"searched", "panicked"}
    \/ pc = "searched" /\ pc' = "checked"

\* C16: search_to_insert and is_match are read-only: the backend calls of
\* the search are get_entry_point, get_links, eval_distance and
\* eval_distance_batch (and the comparisons less_than and is_match, which
\* change nothing), no write is made, and the graph, the parameters and the
\* random generator are as before the call.
C16_SearchReadOnly ==
    [][SearchOrMatchStep =>
           /\ graph' = graph
           /\ params' = params
           /\ rng' = rng
           /\ writes' = <<>>
           /\ \A k \in 1..Len(reads') : reads'[k].op \in ReadOps]_vars

C16_Witness ==
    /\ pc = "checked"
    /\ rng > 0
    /\ \E k \in 1..Len(reads) : reads[k].op = "get_links"
    /\ \E k \in 1..Len(reads) : reads[k].op = "eval_distance_batch"

(***************************************************************************)
(* Properties of the coroutine, under SpecStream.                          *)
(***************************************************************************)

\* The entry point the orchestrator answered GetEntryPoint with, as an
\* Option.
AnsweredEntryPoint == IF Len(co.replies) >= 1 THEN co.replies[1] ELSE <<>>

\* C17: the first op of the stream is GetEntryPoint; when it is answered
\* with None, the next item is SearchResult with the query and an empty
\* result, it is the last, and nothing is emitted in between.
C17_EmptyGraphStream ==
    /\ Len(co.ops) >= 1 => co.ops[1] = GetEntryPoint
    /\ (Len(co.replies) >= 1 /\ Len(AnsweredEntryPoint) = 0) =>
           /\ Len(co.replies) = 1
           /\ Task.status = "done"
           /\ Task.ops = <<GetEntryPoint, SearchResult(co.query, <<>>)>>
           /\ Len(co.ops) <= 2
           /\ Len(co.ops) = 2 => co.ops[2] = SearchResult(co.query, <<>>)

C17_Witness ==
    /\ Len(co.replies) = 1
    /\ Len(AnsweredEntryPoint) = 0
    /\ co.received = 2
    /\ co.ops[2].op = "SearchResult"

\* The distance the orchestrator answered the EvalDistanceBatch of the
\* entry vector with.
EntryDistance == co.replies[2][Len(co.replies[2])]

\* Every comparison asked for so far was answered true.
AllAnsweredTrue ==
    \A i \in 3..Len(co.replies) :
        Sent[i].op = "LessThanBatch" /\ co.replies[i] = <<TRUE>>

\* C18: when GetEntryPoint is answered with an entry point of L >= 1
\* layers, the next op is EvalDistanceBatch of the query and the entry
\* vector; every op from there to the first GetLinks is a LessThanBatch of
\* the returned distance with itself, so that one comes before any
\* GetLinks; and when every comparison is answered true there is no
\* GetLinks, L comparisons, and the stream ends with a SearchResult of L
\* queues of the entry vector with its distance.
C18_EntryPointStream ==
    (Len(AnsweredEntryPoint) = 1 /\ AnsweredEntryPoint[1].layer_count >= 1) =>
        LET ep == AnsweredEntryPoint[1]
            L  == ep.layer_count
        IN  /\ Len(co.ops) >= 2 =>
                   co.ops[2] = EvalDistanceBatch(co.query, <<ep.vector_ref>>)
            /\ \A i \in 3..Len(co.ops) :
                   (\A j \in 3..i : co.ops[j].op \notin {"GetLinks", "SearchResult"}) =>
                       co.ops[i] = LessThanBatch(EntryDistance, <<EntryDistance>>)
            /\ Len(co.ops) >= 3 => co.ops[3].op = "LessThanBatch"
            /\ (Len(co.replies) >= 2 /\ AllAnsweredTrue) =>
                   /\ \A i \in 1..Len(co.ops) : co.ops[i].op # "GetLinks"
                   /\ Len(co.replies) <= L + 2
                   /\ Len(co.replies) = L + 2 =>
                          /\ Task.status = "done"
                          /\ Len(Task.ops) = L + 3
                          /\ Task.ops[L + 3] =
                                 SearchResult(co.query,
                                     [lc \in 1..L |-> <<<<ep.vector_ref, EntryDistance>>>>])
                   /\ Len(co.ops) = L + 3 => co.ops[L + 3] = Task.ops[L + 3]

C18_Witness ==
    /\ Len(AnsweredEntryPoint) = 1
    /\ AnsweredEntryPoint[1].layer_count = 2
    /\ Len(co.replies) = 4
    /\ AllAnsweredTrue
    /\ co.received = 5
    /\ co.ops[5].op = "SearchResult"
    /\ Len(co.ops[5].result) = 2

\* C19: the coroutine alternates one op with one reply: at most one op
\* awaits a reply, it is the last op sent, every op before the last was
\* answered, the task does not abort, a SearchResult is the last op and is
\* sent once, and a task that has run to its end has sent it.
C19_StrictAlternation ==
    /\ Len(Sent) - Len(co.replies) \in {0, 1}
    /\ Len(Sent) > Len(co.replies) => co.ops[Len(co.ops)].reply
    /\ Len(co.ops) - Len(co.replies) \in {0, 1}
    /\ Task.status # "panic"
    /\ \A i \in 1..Len(co.ops) :
           co.ops[i].op = "SearchResult" =>
               i = Len(co.ops) /\ Task.status = "done" /\ Len(Task.ops) = i
    /\ (Task.status = "done" /\ Len(co.ops) = Len(Task.ops)) =>
           co.ops[Len(co.ops)].op = "SearchResult"

C19_Witness ==
    /\ co.received = Len(co.ops)
    /\ Len(co.ops) >= 1
    /\ co.ops[Len(co.ops)].op = "SearchResult"
    /\ \E i \in 1..Len(co.ops) : co.ops[i].op = "GetLinks" /\ Len(co.replies[i]) = 2

(***************************************************************************)
(* SpecCancel: the caller of Spec may also drop the future of a searcher   *)
(* operation while it awaits a backend.  What the operation did before the *)
(* await stays done.                                                       *)
(***************************************************************************)

RECURSIVE apply_writes(_, _, _)
\* The graph after the first k writes of log.
apply_writes(g, log, k) ==
    IF k = 0 THEN g
    ELSE LET before == apply_writes(g, log, k - 1)
             w      == log[k]
         IN  IF w.op = "set_links"
             THEN set_links(before, w.base, w.links, w.lc)
             ELSE set_entry_point(before, EntryPoint(w.base, w.lc))

\* Of a search that would return r, the first k reads are done.
search_to_insert_cancelled(r) ==
    \E k \in 0..(Len(r.log) - 1) :
        /\ ~r.panicked
        /\ reads' = SubSeq(r.log, 1, k)

\* Of an insert that would return r, the first k writes are done.
insert_from_search_results_cancelled(r) ==
    \E k \in 0..(Len(r.log) - 1) :
        /\ ~r.panicked
        /\ graph' = apply_writes(graph, r.log, k)
        /\ writes' = SubSeq(r.log, 1, k)

\* search_to_insert(q) dropped while it awaits the backend read after its
\* first k.
CancelSearchToInsert(q) ==
    /\ \/ pc = "prepared" /\ q = query
       \/ pc \in {"idle", "inserted"} /\ points[q].is_persistent
    /\ search_to_insert_cancelled(search_to_insert(graph, q))
    /\ pc' = "cancelled"
    /\ query' = q
    /\ neighbors' = <<>>
    /\ matched' = <<>>
    /\ inserted' = 0
    /\ level' = <<>>
    /\ writes' = <<>>
    /\ UNCHANGED <<params, rng, points, graph, chosen>>
    /\ UNCHANGED other_hosts

\* insert_from_search_results dropped while it awaits a backend after its
\* first k writes: select_layer has run, it comes before the first await.
CancelInsertFromSearchResults(l) ==
    /\ pc = "stored"
    /\ insert_from_search_results_cancelled(
           insert_from_search_results(graph, inserted, neighbors, l))
    /\ rng' = rng + 1
    /\ level' = <<l>>
    /\ pc' = "cancelled"
    /\ chosen' = (inserted :> l) @@ chosen
    /\ UNCHANGED <<params, points, query, neighbors, matched, inserted, reads>>
    /\ UNCHANGED other_hosts

NextCancel ==
    \/ Next
    \/ \E q \in PointIds : CancelSearchToInsert(q)
    \/ \E l \in LevelChoices : CancelInsertFromSearchResults(l)

SpecCancel == Init /\ [][NextCancel]_vars

\* C20: a searcher operation cancelled at a suspension point leaves the
\* random generator and the parameters as they were before the call.
C20_CancelLeavesSearcher ==
    [][pc' = "cancelled" => (rng' = rng /\ params' = params)]_vars

(***************************************************************************)
(* SpecMismatch: the orchestrator of SpecStream, which may also answer an  *)
(* EvalDistanceBatch with fewer or more distances than vectors asked for.  *)
(***************************************************************************)

\* The values an orchestrator can put in the reply sender of op: for
\* EvalDistanceBatch also a Vec with one distance less or more than asked.
RepliesOfAnyLength(op) ==
    IF op.op = "EvalDistanceBatch"
    THEN Replies(op) \cup {[i \in 1..n |-> 10] : n \in {Len(op.vectors) - 1,
                                                        Len(op.vectors) + 1} \ {-1}}
    ELSE Replies(op)

NextMismatch ==
    \/ TaskSend
    \/ StreamNext
    \/ \E value \in UNION {RepliesOfAnyLength(Pending[i]) : i \in 1..Len(Pending)} :
           StreamReply(value)

SpecMismatch == InitStream /\ [][NextMismatch]_vars

\* C21: when an EvalDistanceBatch is answered with a number of distances
\* that is not the number of vectors asked for, the search aborts.
C21_MismatchAborts ==
    \A i \in 1..Len(co.replies) :
        (Sent[i].op = "EvalDistanceBatch" /\ Len(co.replies[i]) # Len(Sent[i].vectors))
            => Task.status = "panic"

(***************************************************************************)
(* SpecPair: two searchers built with the same seed and parameters, each   *)
(* over its own GraphMem and over vector stores of the same content, are   *)
(* driven by the same calls.  The seed of a searcher is the sequence of    *)
(* levels select_layer returns, one per draw.                              *)
(***************************************************************************)

PairSeeds == [1..MaxVectors -> LevelChoices]

pair_frame == <<pg, calls, eager, co, linear, held>>

InitPair ==
    /\ params \in TwinParams
    /\ rng = 0
    /\ points = <<>>
    /\ graph = GraphMem_new
    /\ pc = "idle"
    /\ query = 0
    /\ neighbors = <<>>
    /\ matched = <<>>
    /\ inserted = 0
    /\ level = <<>>
    /\ reads = <<>>
    /\ writes = <<>>
    /\ chosen = <<>>
    /\ pg = GraphPg_new
    /\ calls = <<>>
    /\ eager = EagerCaller_new
    /\ co = Stream_new(0)
    /\ second \in {HawkSearcher_new(seed, seed) : seed \in PairSeeds}
    /\ linear = LinearDb_new
    /\ held = <<>>

\* What the second searcher holds when its search_to_insert returns r, the
\* first having made the calls first_log.
second_search_to_insert_returns(r, first_log) ==
    second' = [second EXCEPT !.neighbors = r.links,
                             !.calls = @ \o r.log,
                             !.first_calls = @ \o first_log,
                             !.panicked = @ \/ r.panicked]

\* What the second searcher and its graph hold when its
\* insert_from_search_results returns r: select_layer has drawn once.
second_insert_from_search_results_returns(r, first_log) ==
    second' = [second EXCEPT !.graph = r.g,
                             !.rng = @ + 1,
                             !.calls = @ \o r.log,
                             !.first_calls = @ \o first_log,
                             !.panicked = @ \/ r.panicked]

PairPrepareQuery(raw_query) ==
    CallerPrepareQuery(raw_query) /\ UNCHANGED second /\ UNCHANGED pair_frame

PairSearchToInsert(q) ==
    /\ pc = "prepared"
    /\ CallerSearchToInsert(q)
    /\ second_search_to_insert_returns(search_to_insert(second.graph, q), reads')
    /\ UNCHANGED pair_frame

PairIsMatch == CallerIsMatch /\ UNCHANGED second /\ UNCHANGED pair_frame

PairVectorStoreInsert ==
    CallerVectorStoreInsert /\ UNCHANGED second /\ UNCHANGED pair_frame

\* Both searchers insert; select_layer of each gives the next level of its
\* seed.
PairInsertFromSearchResults ==
    /\ ~second.panicked
    /\ CallerInsertFromSearchResults(second.seed[rng + 1])
    /\ second_insert_from_search_results_returns(
           insert_from_search_results(second.graph, inserted, second.neighbors,
                                      second.rng_seed[second.rng + 1]),
           writes')
    /\ UNCHANGED pair_frame

NextPair ==
    \/ \E raw_query \in RawQueries : PairPrepareQuery(raw_query)
    \/ \E q \in PointIds : PairSearchToInsert(q)
    \/ PairIsMatch
    \/ PairVectorStoreInsert
    \/ PairInsertFromSearchResults

SpecPair == InitPair /\ [][NextPair]_vars

LinearDb_exists_first(vectors, q, i) ==
    /\ i <= Len(vectors)
    /\ store_is_match(eval_distance(q, vectors[i]))

RECURSIVE LinearDb_exists(_, _, _)
\* LinearDb::exists: the loop over self.vectors from index i on.
LinearDb_exists(vectors, q, i) ==
    IF i > Len(vectors) THEN FALSE
    ELSE IF store_is_match(eval_distance(q, vectors[i])) THEN TRUE
    ELSE LinearDb_exists(vectors, q, i + 1)

linear_frame ==
    <<params, rng, graph, pc, query, neighbors, matched, inserted, level, reads,
      writes, chosen, pg, calls, eager, co, second, held>>

\* db.store.prepare_query(raw_query)
LinearPrepareQuery(raw_query) ==
    /\ Len(points) < MaxVectors
    /\ points' = Append(points, [data |-> raw_query, is_persistent |-> FALSE])
    /\ UNCHANGED linear
    /\ UNCHANGED linear_frame

\* LinearDb::insert(q); the store's insert makes the point of q persistent
\* and returns its id.
LinearInsert(q) ==
    /\ IF LinearDb_exists(linear.vectors, q, 1)
       THEN /\ linear' = [linear EXCEPT !.result = <<[query |-> q, value |-> FALSE]>>]
            /\ UNCHANGED points
       ELSE /\ points' = [points EXCEPT ![q].is_persistent = TRUE]
            /\ linear' = [vectors |-> Append(linear.vectors, q),
                          result |-> <<[query |-> q, value |-> TRUE]>>]
    /\ UNCHANGED linear_frame

NextLinear ==
    \/ \E raw_query \in RawQueries : LinearPrepareQuery(raw_query)
    \/ \E q \in PointIds : LinearInsert(q)

SpecLinear == Init /\ [][NextLinear]_vars

\* Some stored vector matches the query q.
MatchesStored(q) ==
    \E i \in 1..Len(linear.vectors) :
        actually_evaluate_distance(<<q, linear.vectors[i]>>) = 0

\* C23: LinearDb.insert(query) returns true and stores the query exactly
\* when no stored vector matches it; when one matches it returns false and
\* neither the list of vectors nor the vector store changes; and no two
\* stored vectors match each other.
C23_LinearDbInsert ==
    /\ [](\A i, j \in 1..Len(linear.vectors) :
              i # j => actually_evaluate_distance(
                           <<linear.vectors[i], linear.vectors[j]>>) # 0)
    /\ [][linear' # linear =>
             LET q     == linear'.result[1].query
                 value == linear'.result[1].value
             IN  /\ value = ~MatchesStored(q)
                 /\ value => /\ linear'.vectors = Append(linear.vectors, q)
                             /\ points' = [points EXCEPT ![q].is_persistent = TRUE]
                 /\ ~value => /\ linear'.vectors = linear.vectors
                              /\ points' = points]_vars

C23_Witness ==
    /\ Len(linear.vectors) = 2
    /\ Len(points) = MaxVectors
    /\ linear.result = <<[query |-> MaxVectors, value |-> FALSE]>>
    /\ ~points[MaxVectors].is_persistent

(***************************************************************************)
(* The layers and the promotion of one insert.                             *)
(***************************************************************************)

\* The layers on which the write log has a set_links.
LinkedLayers(log) == {log[i].lc : i \in {j \in 1..Len(log) : log[j].op = "set_links"}}

\* The set_entry_point calls of the write log, as <<vector, layer_count>>.
Promotions(log) ==
    {<<log[i].base, log[i].lc>> : i \in {j \in 1..Len(log) : log[j].op = "set_entry_point"}}

\* C24: an insert_from_search_results that drew level l and was given
\* L = len(links) queues connects the new vector on exactly the layers
\* 0..min(l, L-1), calls set_entry_point(new vector, l + 1) exactly when
\* l >= L, and leaves the entry point as it was when l < L.
C24_LayersAndPromotion ==
    [][(pc = "stored" /\ pc' = "inserted") =>
          LET l == level'[1]
              L == Len(neighbors)
          IN  /\ LinkedLayers(writes') = 0..Min(l, L - 1)
              /\ \A lc \in LinkedLayers(writes') :
                     /\ inserted \in DOMAIN graph'.layers[lc + 1]
                     /\ inserted \notin DOMAIN graph.layers[lc + 1]
              /\ Promotions(writes') =
                     IF l >= L THEN {<<inserted, l + 1>>} ELSE {}
              /\ l >= L => graph'.entry_point = <<EntryPoint(inserted, l + 1)>>
              /\ l < L => graph'.entry_point = graph.entry_point]_vars

\* An insert at the top layer index and one at the layer count have both
\* happened: the last drew l = L = 1 and was promoted after being linked on
\* layer 0, its predecessor drew 0 against one layer and was not promoted.
C24_Witness ==
    /\ pc = "inserted"
    /\ level = <<1>>
    /\ Len(neighbors) = 1
    /\ LinkedLayers(writes) = {0}
    /\ Promotions(writes) = {<<inserted, 2>>}
    /\ \E p \in Inserted : p # inserted /\ chosen[p] = 0 /\ p \in DOMAIN graph.layers[1]

\* C25: when every insert is given the result of a search run after the
\* previous insert completed, the assertion of set_entry_point never fails:
\* the insert returns, and when it promotes (l >= len(links)) the layer_count
\* it stores is strictly above the one stored before.  This covers l equal
\* to the top layer index (no promotion) and l equal to the layer count.
C25_FreshSearchNeverAborts ==
    [][pc = "stored" =>
          /\ Len(neighbors) = LayerCount(graph)
          /\ pc' = "inserted"
          /\ level'[1] >= Len(neighbors) =>
                 /\ ~set_entry_point_aborts(graph, EntryPoint(inserted, level'[1] + 1))
                 /\ LayerCount(graph') > LayerCount(graph)]_vars

\* Three inserts: level 0 into the empty graph (l = layer count 0), level 0
\* against one layer (l = top layer index), level 1 against one layer
\* (l = layer count).
C25_Witness ==
    /\ pc = "inserted"
    /\ rng = 3
    /\ chosen[1] = 0 /\ chosen[2] = 0 /\ chosen[3] = 1
    /\ graph.entry_point = <<EntryPoint(3, 2)>>

(***************************************************************************)
(* A caller that keeps a search result while it inserts another vector.    *)
(* search_to_insert returns its result by value and                        *)
(* insert_from_search_results takes it by value, so nothing ties a result  *)
(* to the graph it was computed on.                                        *)
(***************************************************************************)

hold_frame == <<pg, calls, eager, co, second, linear>>

\* The caller puts aside the vector it stored and the result of its search.
Hold ==
    /\ pc = "stored"
    /\ held = <<>>
    /\ held' = <<[inserted |-> inserted, neighbors |-> neighbors]>>
    /\ pc' = "idle"
    /\ query' = 0
    /\ neighbors' = <<>>
    /\ matched' = <<>>
    /\ inserted' = 0
    /\ reads' = <<>>
    /\ UNCHANGED <<params, rng, points, graph, level, writes, chosen>>
    /\ UNCHANGED hold_frame

\* The caller takes the result it put aside, to insert it next.
Resume ==
    /\ pc \in {"idle", "inserted"}
    /\ held # <<>>
    /\ held' = <<>>
    /\ pc' = "stored"
    /\ inserted' = held[1].inserted
    /\ neighbors' = held[1].neighbors
    /\ query' = held[1].inserted
    /\ matched' = <<>>
    /\ reads' = <<>>
    /\ writes' = <<>>
    /\ level' = <<>>
    /\ UNCHANGED <<params, rng, points, graph, chosen>>
    /\ UNCHANGED hold_frame

NextStale ==
    \/ \E raw_query \in RawQueries : CallerPrepareQuery(raw_query) /\ UNCHANGED other_hosts
    \/ \E q \in PointIds : CallerSearchToInsert(q) /\ UNCHANGED other_hosts
    \/ CallerIsMatch /\ UNCHANGED other_hosts
    \/ CallerVectorStoreInsert /\ UNCHANGED other_hosts
    \/ \E l \in LevelChoices : CallerInsertFromSearchResults(l) /\ UNCHANGED other_hosts
    \/ CallerDiscard /\ UNCHANGED other_hosts
    \/ Hold
    \/ Resume

SpecStale == Init /\ [][NextStale]_vars

\* C26: at every insert_from_search_results call, whatever the order of the
\* searches and inserts, the number of queues passed equals the layer_count
\* of the entry point stored at that moment (0 when there is none).
C26_QueuesEqualLayerCount ==
    [][(pc = "stored" /\ pc' \in {"inserted", "panicked"}) =>
          Len(neighbors) = LayerCount(graph)]_vars

\* An insert given a result computed before another insert raised the
\* layer count has run, and set_entry_point's assertion failed in it.
C26_StaleInsertAborted ==
    /\ pc = "panicked"
    /\ inserted # 0
    /\ Len(neighbors) < LayerCount(graph)

(***************************************************************************)
(* The order of the writes of one insert, complete or interrupted.         *)
(***************************************************************************)

\* The link lists an insert of the vector q with level l and the search
\* result links has to write, as <<layer, base>>.
WritesDue(q, links, l) ==
    {<<lc, q>> : lc \in 0..Min(l, Len(links) - 1)}
    \cup UNION {{<<lc, links[lc + 1][i][1]>> :
                     i \in 1..Min(params.M, Len(links[lc + 1]))} :
                lc \in 0..Min(l, Len(links) - 1)}

\* The link lists the write log has written, as <<layer, base>>.
WritesDone(log) ==
    {<<log[i].lc, log[i].base>> : i \in {j \in 1..Len(log) : log[j].op = "set_links"}}

\* C27: the writes of one insert_from_search_results call come in a fixed
\* order: layers from 0 upward, within a layer the lists of the neighbors
\* before the list of the new vector, and set_entry_point last.  An insert
\* interrupted at a suspension point may have written links without having
\* promoted the entry point, but whenever the entry point has changed every
\* link list of that insert is written.
C27_WriteOrder ==
    [][pc = "stored" =>
          /\ \A i, j \in 1..Len(writes') :
                 i < j => /\ writes'[i].op = "set_links"
                          /\ writes'[j].op = "set_links" =>
                                 /\ writes'[i].lc <= writes'[j].lc
                                 /\ ~(/\ writes'[i].lc = writes'[j].lc
                                      /\ writes'[i].base = inserted)
          /\ WritesDone(writes') \subseteq WritesDue(inserted, neighbors, level'[1])
          /\ graph' = apply_writes(graph, writes', Len(writes'))
          /\ graph'.entry_point # graph.entry_point =>
                 /\ pc' = "inserted"
                 /\ graph'.entry_point = <<EntryPoint(inserted, level'[1] + 1)>>
                 /\ WritesDone(writes') = WritesDue(inserted, neighbors, level'[1])]_vars

\* An insert that was to promote its vector (l >= len(links)) was
\* interrupted after it had written links on layer 0, its own list among
\* them: the entry point is still the previous one.
C27_Witness ==
    /\ pc = "cancelled"
    /\ inserted # 0
    /\ level = <<1>>
    /\ Len(neighbors) = 1
    /\ <<0, inserted>> \in WritesDone(writes)
    /\ Len(writes) >= 2
    /\ graph.entry_point[1].vector_ref # inserted

(***************************************************************************)
(* SpecLive: the coroutine with an orchestrator that answers every op.     *)
(* The task runs on the runtime it was spawned on and the orchestrator     *)
(* keeps polling and answering, so a step that stays possible is taken.    *)
(* The graph the answers describe is arbitrary: a vector may link to       *)
(* itself, two vectors to each other, a list may name a vector twice, and  *)
(* less_than is answered either way.                                       *)
(***************************************************************************)

MaxRun == 16

LiveQueues ==
    {<<>>, <<<<2, 10>>, <<1, 10>>>>, <<<<2, 10>>, <<2, 10>>>>}

\* The answers of the orchestrator; all distances are the same token, the
\* order between them is what less_than answers.
LiveReplies(op) ==
    CASE op.op = "GetEntryPoint" ->
             {<<>>} \cup {<<EntryPoint(1, n)>> : n \in StreamLayerCounts}
      [] op.op = "EvalDistanceBatch" -> {[i \in 1..Len(op.vectors) |-> 10]}
      [] op.op = "LessThanBatch" -> [1..Len(op.distances) -> BOOLEAN]
      [] op.op = "GetLinks" -> LiveQueues
      [] OTHER -> {}

\* reply.send(value) on the oldest reply sender not used yet.
LiveReply(value) ==
    /\ Len(Pending) = 1
    /\ Len(co.replies) < MaxRun
    /\ co' = [co EXCEPT !.replies = Append(@, value)]
    /\ UNCHANGED stream_frame

\* The orchestrator answers the op it holds.
Answer ==
    \E value \in UNION {LiveReplies(Pending[i]) : i \in 1..Len(Pending)} :
        LiveReply(value)

NextLive ==
    \/ TaskSend
    \/ StreamNext
    \/ Answer

\* The task has an op to send and the channel has room: TaskSend is
\* enabled.
CanSend == Len(co.ops) < Len(Task.ops) /\ Len(co.ops) - co.received < 1

\* Weak fairness of the three steps; that of TaskSend is written with its
\* enabling condition spelled out.
SpecLive ==
    /\ InitStream
    /\ [][NextLive]_vars
    /\ WF_vars(StreamNext)
    /\ WF_vars(Answer)
    /\ ([]<>(~CanSend) \/ []<><<TaskSend>>_vars)

\* The stream has yielded the SearchResult.
SearchResultEmitted ==
    /\ Task.status = "done"
    /\ co.received = Len(Task.ops)
    /\ co.received >= 1
    /\ co.ops[co.received].op = "SearchResult"

\* C28: the search terminates whatever the link structure and whatever
\* less_than answers: when the orchestrator answers every operation, the
\* stream eventually yields SearchResult.
C28_SearchResultEventually == <>SearchResultEmitted

\* The longest run has ended: sixteen answers, among them a link list that
\* names the base itself or names a vector twice.
C28_Witness ==
    /\ SearchResultEmitted
    /\ Len(co.replies) = 16
    /\ \E i \in 1..Len(co.replies) :
           /\ Sent[i].op = "GetLinks"
           /\ Len(co.replies[i]) = 2
           /\ \/ Sent[i].base = co.replies[i][2][1]
              \/ co.replies[i][1][1] = co.replies[i][2][1]

(***************************************************************************)
(* SpecLayer: search_layer called on its own, on one layer of any of the   *)
(* graphs above, with any W the searcher's queue type can hold (ascending, *)
(* no vector twice, at most ef long; the empty one included).              *)
(***************************************************************************)

LayerGraphs == {g \in SearchGraphs : g.entry_point[1].vector_ref = 1}

LayerEfs == {1, 2}

\* The queues over the stored vectors with their distances to the query q.
LayerWs(q) ==
    {W \in UpTo2({<<e, eval_distance(q, e)>> : e \in SearchVectors}) :
        Len(W) = 2 => /\ W[1][1] # W[2][1]
                      /\ ~less_than(W[2][2], W[1][2])}

InitLayer ==
    /\ params = Param(2, 2, 2, 2)
    /\ rng = 0
    /\ points = <<Point(0, TRUE), Point(1, TRUE), Point(6, TRUE), Point(3, FALSE)>>
    /\ graph \in LayerGraphs
    /\ pc = "prepared"
    /\ query = 4
    /\ neighbors = <<>>
    /\ matched = <<>>
    /\ inserted = 0
    /\ level = <<>>
    /\ reads = <<>>
    /\ writes = <<>>
    /\ chosen = <<>>
    /\ InitOtherHosts

\* What the caller has when search_layer returns r, or panics: W is a
\* &mut argument, the caller's queue is the one search_layer worked on.
search_layer_returns(r, W, ef, lc) ==
    /\ neighbors' = <<r.W>>
    /\ reads' = r.log
    /\ pc' = IF r.panicked THEN "panicked" ELSE "layer"
    /\ held' = <<[W |-> W, ef |-> ef, lc |-> lc]>>

\* search_layer(q, W, ef, lc)
SearchLayer(q, W, ef, lc) ==
    /\ pc = "prepared"
    /\ q = query
    /\ Len(W) <= ef
    /\ search_layer_returns(search_layer(graph, q, W, ef, lc), W, ef, lc)
    /\ UNCHANGED <<params, rng, points, graph, query, matched, inserted, level,
                   writes, chosen>>
    /\ UNCHANGED hold_frame

NextLayer ==
    \E q \in PointIds, W \in LayerWs(query), ef \in LayerEfs,
       lc \in 0..(Len(graph.layers) - 1) : SearchLayer(q, W, ef, lc)

SpecLayer == InitLayer /\ [][NextLayer]_vars

\* C29: search_layer called with an empty W returns with W still empty and
\* without any backend call.
C29_EmptyWNoOp ==
    (pc \in {"layer", "panicked"} /\ held[1].W = <<>>) =>
        /\ pc = "layer"
        /\ neighbors = <<<<>>>>
        /\ reads = <<>>

RECURSIVE Reachable(_, _, _)
\* The vectors reachable from the set from along the links of layer lc.
Reachable(g, lc, from) ==
    LET step == from \cup UNION {VectorSet(get_links(g, base, lc)) : base \in from}
    IN  IF step = from THEN from ELSE Reachable(g, lc, step)

\* The distance of the query to the vector e, evaluated.
QueryDistance(e) == actually_evaluate_distance(eval_distance(query, e))

Expanded(log) ==
    [i \in 1..Len(SelectSeq(log, LAMBDA r : r.op = "get_links")) |->
        SelectSeq(log, LAMBDA r : r.op = "get_links")[i].base]

\* The set R of a search_layer call: what is reachable from the W it was
\* given.
ReachableFromW == Reachable(graph, held[1].lc, VectorSet(held[1].W))

\* W holds every vector of R once, and every vector of R was expanded once:
\* the stop test never cut the traversal.
AllReachableFound ==
    /\ VectorSet(neighbors[1]) = ReachableFromW
    /\ Len(neighbors[1]) = Cardinality(ReachableFromW)
    /\ NoDuplicates(Expanded(reads))
    /\ {Expanded(reads)[i] : i \in 1..Len(Expanded(reads))} = ReachableFromW

\* C31: a search_layer call whose reachable vectors number at most ef never
\* stops early and ends with W holding every reachable vector exactly once.
C31_AllReachableFound ==
    (pc \in {"layer", "panicked"} /\ Cardinality(ReachableFromW) <= held[1].ef) =>
        /\ pc = "layer"
        /\ AllReachableFound

\* The same for the calls with a non-empty W, which do end.
C31_AllReachableFoundUnlessEmpty ==
    (/\ pc \in {"layer", "panicked"}
     /\ held[1].W # <<>>
     /\ Cardinality(ReachableFromW) <= held[1].ef) =>
        /\ pc = "layer"
        /\ AllReachableFound

(***************************************************************************)
(* The length of W at every point of search_layer where W has just been    *)
(* given or changed: when the call starts, after W.pop_furthest() and      *)
(* after W.insert().                                                       *)
(***************************************************************************)

WLen(at, W) == [at |-> at, len |-> Len(W)]

\* The lengths W takes in the body of "for (e, eq) in c_links" for one pair.
visit_candidate_lens(W, fq, eq, ef) ==
    IF Len(W) = ef /\ ~less_than(eq, fq) THEN <<>>
    ELSE IF Len(W) = ef
         THEN <<WLen("popped", pop_furthest(W)), WLen("inserted", W)>>
         ELSE <<WLen("inserted", Append(W, <<0, eq>>))>>

RECURSIVE visit_candidates_lens(_, _, _, _, _, _, _, _)
visit_candidates_lens(W, C, fq, e_batch, distances, i, ef, lens) ==
    IF i > Len(e_batch) THEN lens
    ELSE visit_candidates_lens(
             visit_candidate(W, C, fq, e_batch[i], distances[i], ef).W,
             visit_candidate(W, C, fq, e_batch[i], distances[i], ef).C,
             visit_candidate(W, C, fq, e_batch[i], distances[i], ef).fq,
             e_batch, distances, i + 1, ef,
             lens \o visit_candidate_lens(W, fq, distances[i], ef))

\* One expansion of the loop "while C.len() > 0": the state after it.
expand_candidate(g, q, ef, lc, W, C, v, fq) ==
    visit_candidates(W, pop_nearest(C), fq,
        filter_unvisited(get_links(g, C[Len(C)][1], lc), 1, v, <<>>).e_batch,
        eval_distance_batch(q,
            filter_unvisited(get_links(g, C[Len(C)][1], lc), 1, v, <<>>).e_batch),
        1, ef)

\* One expansion of the loop: the lengths W takes in it.
expand_candidate_lens(g, q, ef, lc, W, C, v, fq) ==
    visit_candidates_lens(W, pop_nearest(C), fq,
        filter_unvisited(get_links(g, C[Len(C)][1], lc), 1, v, <<>>).e_batch,
        eval_distance_batch(q,
            filter_unvisited(get_links(g, C[Len(C)][1], lc), 1, v, <<>>).e_batch),
        1, ef, <<>>)

RECURSIVE search_layer_loop_lens(_, _, _, _, _, _, _, _, _)
\* The loop "while C.len() > 0": the lengths W takes in it.
search_layer_loop_lens(g, q, ef, lc, W, C, v, fq, lens) ==
    IF Len(C) = 0 THEN lens
    ELSE IF less_than(fq, C[Len(C)][2]) THEN lens
    ELSE search_layer_loop_lens(g, q, ef, lc,
             expand_candidate(g, q, ef, lc, W, C, v, fq).W,
             expand_candidate(g, q, ef, lc, W, C, v, fq).C,
             filter_unvisited(get_links(g, C[Len(C)][1], lc), 1, v, <<>>).v,
             expand_candidate(g, q, ef, lc, W, C, v, fq).fq,
             lens \o expand_candidate_lens(g, q, ef, lc, W, C, v, fq))

\* The lengths W takes in search_layer, from the W it is given on.
search_layer_lens(g, q, W, ef, lc) ==
    IF Len(W) = 0 THEN <<WLen("start", W)>>
    ELSE search_layer_loop_lens(g, q, ef, lc, W, from_furthest_queue(W),
             {W[i][1] : i \in 1..Len(W)}, get_furthest(W)[1][2],
             <<WLen("start", W)>>)

\* The W that search_to_insert gives to search_layer on layer lc: that of
\* search_init on the top layer, the W of the layer above below it.
LayerInput(lc) ==
    IF lc + 1 = Len(neighbors) THEN search_init(graph, query).W ELSE neighbors[lc + 2]

\* The lengths of W in the search_layer call of layer lc of the search the
\* caller holds the result of.
LayerLens(lc) == search_layer_lens(graph, query, LayerInput(lc), params.ef, lc)

VisitedBefore(k) ==
    VectorSet(held[1].W) \cup
    UNION {{reads[j].vectors[i] : i \in 1..Len(reads[j].vectors)} : j \in 1..(k - 1)}

\* The positions of links that name a vector not in visited, and name it for
\* the first time in links.
NewPositions(links, visited) ==
    {i \in 1..Len(links) :
        /\ links[i][1] \notin visited
        /\ \A j \in 1..(i - 1) : links[j][1] # links[i][1]}

\* The not-yet-visited neighbors among links, in link order.
NewNeighbors(links, visited) ==
    Vectors(SelectSeq(
        [i \in 1..Len(links) |->
            IF i \in NewPositions(links, visited) THEN links[i] ELSE <<>>],
        LAMBDA pair : pair # <<>>))

\* C33: every expansion step of search_layer issues exactly one get_links,
\* of the candidate on the layer, and then exactly one eval_distance_batch,
\* whose vectors are the not-yet-visited neighbors of the candidate in link
\* order, also when there are none.
C33_OneBatchPerExpansion ==
    pc = "layer" =>
        /\ Len(reads) % 2 = 0
        /\ \A k \in 1..Len(reads) :
               IF k % 2 = 1
               THEN /\ reads[k].op = "get_links"
                    /\ reads[k].lc = held[1].lc
                    /\ reads[k].base \in VisitedBefore(k)
               ELSE /\ reads[k].op = "eval_distance_batch"
                    /\ reads[k].base = reads[k - 1].base
                    /\ reads[k].vectors =
                           NewNeighbors(get_links(graph, reads[k].base, held[1].lc),
                                        VisitedBefore(k))

\* A traversal with an expansion that found two new neighbors, one that
\* found none although the candidate has links, and one link list that
\* names a vector twice.
C33_Witness ==
    /\ pc = "layer"
    /\ \E k \in 1..Len(reads) :
           reads[k].op = "eval_distance_batch" /\ Len(reads[k].vectors) = 2
    /\ \E k \in 1..Len(reads) :
           /\ reads[k].op = "eval_distance_batch"
           /\ reads[k].vectors = <<>>
           /\ Len(get_links(graph, reads[k].base, held[1].lc)) = 2
    /\ \E k \in 1..Len(reads) :
           /\ reads[k].op = "get_links"
           /\ Len(get_links(graph, reads[k].base, held[1].lc)) = 2
           /\ get_links(graph, reads[k].base, held[1].lc)[1][1] =
                  get_links(graph, reads[k].base, held[1].lc)[2][1]

(***************************************************************************)
(* The layers a promoted vector opens.                                     *)
(***************************************************************************)

\* The insert just done promoted its vector: l >= L = len(links).
Promoted == pc = "inserted" /\ level[1] >= Len(neighbors)

\* The queue of layer lc that a search_to_insert(q) run now returns.
NextSearchQueue(q, lc) == search_to_insert(graph, q).links[lc + 1]

\* C34: right after an insert that promotes the new vector (l >= L), no
\* vector has a stored link on the layers L..l, and the next
\* search_to_insert, of any query, returns on each of these layers a queue
\* holding only the new entry point.
C34_PromotedLayersEmpty ==
    Promoted =>
        /\ Len(graph.layers) = level[1] + 1
        /\ graph.entry_point = <<EntryPoint(inserted, level[1] + 1)>>
        /\ \A lc \in Len(neighbors)..level[1] :
               /\ DOMAIN graph.layers[lc + 1] = {}
               /\ \A q \in PointIds :
                      /\ ~search_to_insert(graph, q).panicked
                      /\ Len(search_to_insert(graph, q).links) = level[1] + 1
                      /\ Vectors(NextSearchQueue(q, lc)) = <<inserted>>

\* The third vector was promoted from one layer to two: layer 0 holds links,
\* layer 1 none.
C34_Witness ==
    /\ Promoted
    /\ level = <<1>>
    /\ Len(neighbors) = 1
    /\ inserted = 3
    /\ DOMAIN graph.layers[1] # {}

(***************************************************************************)
(* The layers of GraphMem and the layer indices the searcher uses.         *)
(***************************************************************************)

\* The layer indices of the get_links and set_links of a log.
LinkLayers(log) ==
    {log[i].lc : i \in {j \in 1..Len(log) : log[j].op \in {"get_links", "set_links"}}}

\* C35: in every reachable state GraphMem has as many layers as the
\* layer_count of the stored entry point (none without an entry point), and
\* every get_links and set_links the searcher issues has a layer index below
\* the number of layers the graph has when it is issued.
C35_LayersMatchEntryPoint ==
    /\ [](/\ Len(graph.layers) = LayerCount(graph)
          /\ pc # "panicked"
          /\ \A lc \in LinkLayers(reads) : lc \in 0..(Len(graph.layers) - 1))
    /\ [][\A lc \in LinkLayers(writes') : lc \in 0..(Len(graph.layers) - 1)]_vars

\* A search read links on both of two layers, and the insert after it wrote
\* links on both.
C35_Witness ==
    /\ pc = "inserted"
    /\ Len(graph.layers) = 2
    /\ LinkLayers(reads) = {0, 1}
    /\ LinkLayers(writes) = {0, 1}

(***************************************************************************)
(* The entry point after any number of inserts.                            *)
(***************************************************************************)

\* The largest level chosen for an inserted vector.
MaxLevel == CHOOSE l \in {chosen[p] : p \in Inserted} :
                \A p \in Inserted : chosen[p] <= l

\* The earliest-inserted vector that was given the largest level.  The
\* caller inserts one vector at a time, in the order of their ids.
FirstAtMaxLevel == CHOOSE p \in Inserted :
                       /\ chosen[p] = MaxLevel
                       /\ \A p2 \in Inserted : chosen[p2] = MaxLevel => p <= p2

\* C36: after one or more inserts into an empty index, each given the
\* result of a search run after the previous insert, the entry point has
\* layer_count 1 + the largest level chosen so far, and its vector is the
\* earliest-inserted vector that was given that level.
C36_EntryPointIsFirstHighest ==
    Inserted # {} =>
        graph.entry_point = <<EntryPoint(FirstAtMaxLevel, MaxLevel + 1)>>

\* Three inserts with levels 0, 1, 1: the second vector is the entry point,
\* the third reached the same level later and is not.
C36_Witness ==
    /\ pc = "inserted"
    /\ Inserted = {1, 2, 3}
    /\ chosen[1] = 0 /\ chosen[2] = 1 /\ chosen[3] = 1
    /\ graph.entry_point = <<EntryPoint(2, 2)>>

(***************************************************************************)
(* The shape of the stored link lists.                                     *)
(***************************************************************************)

\* C37: after any sequence of search-then-insert steps in which every
\* inserted vector is new, no stored link list names its own base vector
\* and none names a vector twice.
C37_NoSelfNoDoubleLinks ==
    \A lc \in 0..(Len(graph.layers) - 1) :
        \A base \in DOMAIN graph.layers[lc + 1] :
            /\ base \notin VectorSet(get_links(graph, base, lc))
            /\ NoDuplicates(Vectors(get_links(graph, base, lc)))

\* Three vectors linked to each other on layer 0 with lists of two links.
C37_Witness ==
    /\ pc = "inserted"
    /\ DOMAIN graph.layers[1] = {1, 2, 3}
    /\ \A base \in {1, 2, 3} : Len(get_links(graph, base, 0)) = 2

(***************************************************************************)
(* What an insert leaves alone.                                            *)
(***************************************************************************)

\* The link list stored for base on layer lc of g; the empty list when the
\* layer or the entry is not there.
StoredList(g, base, lc) ==
    IF lc < Len(g.layers) /\ base \in DOMAIN g.layers[lc + 1]
    THEN g.layers[lc + 1][base]
    ELSE <<>>

\* The vectors of the M nearest pairs of a queue.
NearestMVectors(queue) == VectorSet(trim_to_k_nearest(queue, params.M))

\* C38: an insert of v with level l changes stored link lists only of v and
\* of the M nearest vectors of links[lc], and only on the layers
\* lc <= min(l, len(links) - 1); every other list is as it was.
C38_InsertFrame ==
    [][(pc = "stored" /\ pc' = "inserted") =>
          \A lc \in 0..(Len(graph'.layers) - 1) :
              \A base \in PointIds :
                  StoredList(graph', base, lc) # StoredList(graph, base, lc) =>
                      /\ lc <= Min(level'[1], Len(neighbors) - 1)
                      /\ base \in {inserted} \cup NearestMVectors(neighbors[lc + 1])]_vars

\* An insert with M = 1 whose search had found two vectors on layer 0: the
\* list of the nearer one changed, the list of the other did not; and the
\* lists of layer 1, above the level chosen, did not change.
C38_Witness ==
    /\ pc = "inserted"
    /\ params.M = 1
    /\ level = <<0>>
    /\ Len(neighbors) = 2
    /\ Len(neighbors[1]) = 2
    /\ Len(writes) = 2
    /\ writes[1].base = neighbors[1][1][1]
    /\ inserted \in VectorSet(StoredList(graph, neighbors[1][1][1], 0))
    /\ inserted \notin VectorSet(StoredList(graph, neighbors[1][2][1], 0))

(***************************************************************************)
(* SpecQueue: a FurthestQueue of any ascending content, the NearestQueue   *)
(* built from it, and the same inserts given to both; the distances are    *)
(* those of an EagerMemoryStore, with ties.                                *)
(***************************************************************************)

MaxQueue == 4

QueueDistances == {<<0>>, <<1>>, <<2>>}

\* The ascending queues of up to two pairs, the vectors numbered in order.
AscendingQueues ==
    {<<>>}
    \cup {<<<<1, d>>>> : d \in QueueDistances}
    \cup {queue \in {<<<<1, d1>>, <<2, d2>>>> : d1 \in QueueDistances,
                                                  d2 \in QueueDistances} :
              ~less_than(queue[2][2], queue[1][2])}

\* A queue pair as the test builds it: the FurthestQueue and
\* NearestQueue::from_furthest_queue of it; nothing searched or popped yet.
QueuePair(furthest_queue) ==
    [furthest |-> furthest_queue,
     nearest |-> from_furthest_queue(furthest_queue),
     sorted |-> <<>>,
     popped |-> <<>>]

InitQueue ==
    /\ params = Param(1, 1, 1, 1)
    /\ rng = 0
    /\ points = <<>>
    /\ graph = GraphMem_new
    /\ pc = "queue"
    /\ query = 0
    /\ neighbors = <<>>
    /\ matched = <<>>
    /\ inserted = 0
    /\ level = <<>>
    /\ reads = <<>>
    /\ writes = <<>>
    /\ chosen = <<>>
    /\ pg = GraphPg_new
    /\ calls = <<>>
    /\ eager = EagerCaller_new
    /\ co = Stream_new(0)
    /\ second = HawkSearcher_new(<<>>, <<>>)
    /\ linear = LinearDb_new
    /\ held \in {<<QueuePair(furthest_queue)>> : furthest_queue \in AscendingQueues}

queue_frame ==
    <<params, rng, points, graph, query, neighbors, matched, inserted, level,
      reads, writes, chosen, pg, calls, eager, co, second, linear>>

\* furthest_queue.insert(store, to, dist) and nearest_queue.insert(store, to,
\* dist); sorted keeps the search_sorted call of the first and its result.
QueueInsert(to, dist) ==
    /\ pc = "queue"
    /\ Len(held[1].furthest) < MaxQueue
    /\ to = Len(held[1].furthest) + 1
    /\ held' = <<[furthest |-> FurthestQueue_insert(held[1].furthest, to, dist),
                  nearest |-> NearestQueue_insert(held[1].nearest, to, dist),
                  sorted |-> <<[distances |-> Distances(held[1].furthest),
                                target |-> dist,
                                index |-> search_sorted(Distances(held[1].furthest), dist)]>>,
                  popped |-> <<>>]>>
    /\ UNCHANGED pc
    /\ UNCHANGED queue_frame

\* nearest_queue.pop_nearest(), which is Vec::pop: None on an empty queue.
QueuePopNearest ==
    /\ pc = "queue"
    /\ held' = <<[held[1] EXCEPT
                     !.nearest = pop_nearest(@),
                     !.popped = IF Len(held[1].nearest) = 0 THEN <<>>
                                ELSE <<held[1].nearest[Len(held[1].nearest)]>>]>>
    /\ pc' = "popped"
    /\ UNCHANGED queue_frame

NextQueue ==
    \/ \E to \in 1..MaxQueue, dist \in QueueDistances : QueueInsert(to, dist)
    \/ QueuePopNearest

SpecQueue == InitQueue /\ [][NextQueue]_vars

\* C39: for an ascending list, search_sorted returns an index i in
\* 0..length such that every element before i is less_than the target and
\* no element from i on is; inserting the target at i keeps the list
\* ascending and puts it before the elements of equal distance.
C39_SearchSortedLowerBound ==
    /\ Ascending(held[1].furthest)
    /\ \A k \in 1..Len(held[1].sorted) :
           LET distances == held[1].sorted[k].distances
               target    == held[1].sorted[k].target
               i         == held[1].sorted[k].index
           IN  /\ i \in 0..Len(distances)
               /\ \A n \in 1..i : less_than(distances[n], target)
               /\ \A n \in (i + 1)..Len(distances) : ~less_than(distances[n], target)
               /\ Distances(held[1].furthest) = VecInsert(distances, i, target)
               /\ \A n \in 1..Len(distances) :
                      (~less_than(distances[n], target) /\ ~less_than(target, distances[n]))
                          => n > i

\* A target was inserted in the middle of a list of four, before two
\* elements of its own distance and after a smaller one.
C39_Witness ==
    /\ Len(held[1].sorted) = 1
    /\ held[1].sorted[1].distances = <<<<0>>, <<1>>, <<1>>>>
    /\ held[1].sorted[1].target = <<1>>
    /\ held[1].sorted[1].index = 1
    /\ Vectors(held[1].furthest) = <<1, 4, 3, 2>>

\* C40: a NearestQueue built from a FurthestQueue and given the same inserts
\* is always the exact reverse of the FurthestQueue, ties included, so
\* pop_nearest returns a pair whose distance no remaining pair is less_than.
C40_NearestIsReverse ==
    /\ pc = "queue" => held[1].nearest = Reverse(held[1].furthest)
    /\ pc = "popped" =>
           /\ held[1].nearest = Reverse(SubSeq(held[1].furthest, 2, Len(held[1].furthest)))
           /\ Len(held[1].furthest) > 0 => held[1].popped = <<held[1].furthest[1]>>
           /\ \A n \in 1..Len(held[1].nearest) : \A k \in 1..Len(held[1].popped) :
                  ~less_than(held[1].nearest[n][2], held[1].popped[k][2])

\* Four pairs with ties, inserted out of order, and the nearest popped: of
\* the two nearest pairs of equal distance the one inserted last came out.
C40_Witness ==
    /\ pc = "popped"
    /\ Len(held[1].furthest) = MaxQueue
    /\ held[1].popped = <<<<4, <<0>>>>>>
    /\ Vectors(held[1].furthest) = <<4, 3, 1, 2>>
    /\ Distances(held[1].furthest) = <<<<0>>, <<0>>, <<1>>, <<1>>>>

=============================================================================
